---- MODULE Spec2Model ----
(***************************************************************************)
(* Media asset handlers of the blog service (blog/service.py) over the     *)
(* media records (blog/records.py) and the object storage adapter.         *)
(*                                                                         *)
(* Strings are sequences of one-character strings, so that the size regex  *)
(* and os.path.splitext are computed on them as the code computes them.    *)
(* Every handler is a sequence of steps, one per call to the database or   *)
(* to the storage backend; the local code between two calls belongs to     *)
(* the step of the call that follows it (or, at the end, precedes it).     *)
(***************************************************************************)
EXTENDS Integers, Sequences, FiniteSets, TLC

VARIABLES
  records,        \* the rows of the media table, by _id
  storage,        \* the keys that hold an object in the storage backend
  nextId,         \* the _id the next created record gets
  op,             \* the request each context serves, and how far it is
  failedDeletes,  \* history: the records a delete has left behind with a
                  \* storage error
  categories,     \* the _ids of the rows of the category table
  locales,        \* the rows of the category locale table
  nextCategory,   \* the _id the next created category gets
  flawedCreates   \* history: the categories in whose creation a write to
                  \* the database has failed

\* the tables of the categories
category == <<categories, locales, nextCategory, flawedCreates>>

vars == <<records, storage, nextId, op, failedDeletes, categories, locales,
          nextCategory, flawedCreates>>

(***************************************************************************)
(* Bounds                                                                  *)
(***************************************************************************)
\* number of media records that are ever created
MaxAssets == 1

\* the request contexts; sequential runs serve every request in the first
Proc == {"p1", "p2"}
MainProc == "p1"
Ids == 1..MaxAssets

(***************************************************************************)
(* Strings                                                                 *)
(***************************************************************************)
SOURCE == <<"s", "o", "u", "r", "c", "e">>
SizeC1x1 == <<"c", "1", "x", "1">>
SizeF2x1 == <<"f", "2", "x", "1">>
SizeX1x1 == <<"x", "1", "x", "1">>
FileImage == <<"a", ".", "J", "p", "g">>
FileText == <<"n", ".", "t", "x", "t">>

\* the sizes the requests of the model carry
Sizes == {SizeC1x1, SizeF2x1, SizeX1x1}
\* the filenames the requests of the model carry
Filenames == {FileImage, FileText}

\* \d of a str pattern: the ASCII digits and the other decimal digits of
\* Unicode, for which "U+0663" (ARABIC-INDIC DIGIT THREE) stands as one
\* character
Digits == {"0", "1", "2", "3", "4", "5", "6", "7", "8", "9", "U+0663"}
\* [1-9]
NonZero == {"1", "2", "3", "4", "5", "6", "7", "8", "9"}

\* str.lower() on the characters the filenames use
LowerChar(c) ==
  CASE c = "J" -> "j"
    [] c = "P" -> "p"
    [] c = "G" -> "g"
    [] c = "N" -> "n"
    [] c = "E" -> "e"
    [] OTHER -> c

Lower(s) == [i \in 1..Len(s) |-> LowerChar(s[i])]

\* the last index of character c in s, 0 when there is none
LastIndex(s, c) ==
  LET I == {i \in 1..Len(s) : s[i] = c}
  IN IF I = {} THEN 0 ELSE CHOOSE i \in I : \A j \in I : j <= i

\* os.path.splitext: <<root, ext>>, ext from the last dot of the last path
\* component, unless that component has only dots before it
SplitExt(f) ==
  LET sep == LastIndex(f, "/")
      dot == LastIndex(f, ".")
  IN IF dot > sep /\ \E i \in (sep + 1)..(dot - 1) : f[i] # "."
       THEN <<SubSeq(f, 1, dot - 1), SubSeq(f, dot, Len(f))>>
       ELSE <<f, <<>>>>

\* Blog._image_extensions
ImageExtensions ==
  {<<"j", "p", "e", "g">>, <<"j", "p", "e">>, <<"j", "p", "g">>, <<"p", "n", "g">>}

\* sExt = os.path.splitext(filename)[1][1:].lower(); sExt in _image_extensions
IsImageName(f) ==
  LET e == SplitExt(f)[2]
  IN Lower(SubSeq(e, 2, Len(e))) \in ImageExtensions

\* the positions k at which [cf][1-9]\d* ends so that "x[1-9]" follows
DimensionsSplits(s) ==
  {k \in 2..(Len(s) - 2) :
     /\ s[1] \in {"c", "f"}
     /\ s[2] \in NonZero
     /\ \A j \in 3..k : s[j] \in Digits
     /\ s[k + 1] = "x"
     /\ s[k + 2] \in NonZero}

\* Blog._dimensions.match(size): re.match anchors the pattern at the start
\* of the string only
DimensionsMatch(s) == DimensionsSplits(s) # {}

\* the variant grammar [c|f]<width>x<height> on the whole string
GrammarMatch(s) ==
  \E k \in DimensionsSplits(s) : \A j \in (k + 3)..Len(s) : s[j] \in Digits

\* Python's (cond and a or b): b whenever cond is false or a is falsy, and
\* the empty string is falsy
AndOr(cond, a, b) == IF cond /\ a # <<>> THEN a ELSE b

\* Media._filename: '%s/%s%s%s' % (_id, root, (size == 'source' and '' or
\* '_' + size), ext), so the source gets '_source' as every size gets its
\* own; the id and the path after the slash are kept as the two parts of
\* the key
Filename(id, filename, size) ==
  LET lFile == SplitExt(filename)
  IN <<id, lFile[1] \o AndOr(size = SOURCE, <<>>, <<"_">> \o size) \o lFile[2]>>

(***************************************************************************)
(* Media records (Record_MySQL rows of blog_media) and their calls         *)
(***************************************************************************)
NoRecord == [exists |-> FALSE, filename |-> <<>>, image |-> FALSE, thumbnails |-> <<>>]

\* the row Media(req['data']).create() inserts: the filename and, for an
\* image, the image section with the requested thumbnails
NewRecord(filename, image, thumbnails) ==
  [exists |-> TRUE, filename |-> filename, image |-> image, thumbnails |-> thumbnails]

\* Media.get(_id): the row, or None
MediaGet(recs, id) == IF id \in Ids THEN recs[id] ELSE NoRecord

\* MediaSaved, were the row to get the last item of the list appended to
\* the list it holds, instead of the list of the caller
MediaSavedAppending(recs, id, thumbnails) ==
  IF recs[id].exists /\ thumbnails # <<>>
    THEN [recs EXCEPT ![id].thumbnails = Append(@, thumbnails[Len(thumbnails)])]
    ELSE recs

\* oFile.save(): UPDATE of the changed field (image) of the row with this _id
MediaSaved(recs, id, thumbnails) ==
  IF recs[id].exists THEN [recs EXCEPT ![id].thumbnails = thumbnails] ELSE recs

\* oFile.delete(): DELETE of the row with this _id
MediaDeleted(recs, id) == [recs EXCEPT ![id] = NoRecord]

(***************************************************************************)
(* Storage adapter (MediaStorage): the keys that hold an object, and the   *)
(* last error of each request context                                      *)
(***************************************************************************)
NoError == <<>>

\* MediaStorage.save(key, bytes, mime)
StorageSaved(st, key, ok) == IF ok THEN st \cup {key} ELSE st

\* MediaStorage.delete(key): true also when the object did not exist
StorageDeleted(st, key, ok) == IF ok THEN st \ {key} ELSE st

\* MediaStorage.open(key): the bytes, or None when absent or unreadable
StorageOpens(st, key, ok) == ok /\ key \in st

\* MediaStorage.last_error() after a call: cleared by a success, set by a
\* failure
ErrorAfter(call, key, ok) == IF ok THEN NoError ELSE <<call, key>>

\* MediaStorage.url(key)
StorageUrl(key) == [url |-> key]

(***************************************************************************)
(* The calls that may fail, and the outcomes of a call                     *)
(***************************************************************************)
AllFaults == {"save", "open", "delete", "resize", "db_create", "db_save", "db_delete"}

Outcomes(F, call) == IF call \in F THEN BOOLEAN ELSE {TRUE}

CreateOutcomes(F) == IF "db_create" \in F THEN {"ok", "fail", "duplicate"} ELSE {"ok"}

(***************************************************************************)
(* Requests                                                                *)
(***************************************************************************)
\* what is wrong with a request, if anything: access denied, a required
\* field missing, base64 that b64decode rejects with TypeError or with
\* binascii.Error, content Image.info rejects, content Image.resize
\* rejects, data the Media schema rejects
Defects ==
  {"none", "denied", "missing", "b64_type", "b64_value", "corrupt", "render", "schema"}

\* the lists of thumbnails the create requests of the model carry: none,
\* one, two different ones, the same one twice, one that is no size
ThumbLists ==
  {<<>>, <<SizeC1x1>>, <<SizeC1x1, SizeF2x1>>, <<SizeC1x1, SizeC1x1>>,
   <<SizeC1x1, SizeX1x1>>}

CreateRequests ==
  {r \in [defect : Defects, filename : Filenames, hasThumbs : BOOLEAN,
          thumbs : ThumbLists, id : {0}, hasSize : {FALSE}, size : {<<>>}] :
     ~r.hasThumbs => r.thumbs = <<>>}

DeleteRequests ==
  [defect : {"none", "denied", "missing"}, filename : {<<>>}, hasThumbs : {FALSE},
   thumbs : {<<>>}, id : Ids, hasSize : {FALSE}, size : {<<>>}]

ThumbnailCreateRequests ==
  [defect : {"none", "denied", "missing"}, filename : {<<>>}, hasThumbs : {FALSE},
   thumbs : {<<>>}, id : Ids, hasSize : {TRUE}, size : Sizes]

ThumbnailDeleteRequests ==
  [defect : {"none", "denied", "missing"}, filename : {<<>>}, hasThumbs : {FALSE},
   thumbs : {<<>>}, id : Ids, hasSize : {TRUE}, size : Sizes]

UrlRequests ==
  {r \in [defect : {"none", "denied", "missing"}, filename : {<<>>},
          hasThumbs : {FALSE}, thumbs : {<<>>}, id : Ids, hasSize : BOOLEAN,
          size : Sizes \cup {<<>>}] :
     r.hasSize <=> r.size # <<>>}

NoRequest ==
  [defect |-> "none", filename |-> <<>>, hasThumbs |-> FALSE, thumbs |-> <<>>,
   id |-> 0, hasSize |-> FALSE, size |-> <<>>]

(***************************************************************************)
(* Request contexts                                                        *)
(***************************************************************************)
NoResult == [code |-> "none", data |-> ""]

Idle ==
  [kind |-> "none", pc |-> "idle", req |-> NoRequest, id |-> 0, rec |-> NoRecord,
   todo |-> <<>>, saved |-> <<>>, result |-> NoResult, error |-> NoError,
   retry |-> FALSE, rejected |-> 0, lErrors |-> <<>>, bRes |-> FALSE,
   locale |-> "", log |-> <<>>,
   pre |-> [records |-> <<>>, storage |-> {}, locales |-> {}]]

\* a call the request made: the call, the key or row it was made on, and
\* whether it succeeded
Call(call, key, ok) == [call |-> call, key |-> key, ok |-> ok]

RowKey(id) == <<id, <<>>>>

Busy == \E q \in Proc : op[q].pc # "idle"

\* a request starts in an idle context; sequential runs start it only when
\* no other request is being served
CanStart(p, seq) == op[p].pc = "idle" /\ (seq => ~Busy)

\* the context of a request that starts: the id and the size the request
\* names, and the records and the storage it starts from
Started(p, kind, r) ==
  [Idle EXCEPT !.kind = kind,
               !.req = [NoRequest EXCEPT !.defect = r.defect, !.id = r.id,
                                         !.hasSize = r.hasSize, !.size = r.size],
               !.pre = [records |-> records, storage |-> storage,
                        locales |-> locales]]

Result(code, data) == [code |-> code, data |-> data]

Init ==
  /\ records = [i \in Ids |-> NoRecord]
  /\ storage = {}
  /\ nextId = 1
  /\ op = [p \in Proc |-> Idle]
  /\ failedDeletes = {}
  /\ categories = {}
  /\ locales = {}
  /\ nextCategory = 1
  /\ flawedCreates = {}

\* the response has been sent: the context is free again
Return(p) ==
  /\ op[p].pc = "done"
  /\ op' = [op EXCEPT ![p] = Idle]
  /\ UNCHANGED <<records, storage, nextId, failedDeletes>>
  /\ UNCHANGED category

\* the items of a list in order of first appearance: the keys a dict gets
\* when the items are inserted in list order
RECURSIVE DictKeys(_)
DictKeys(l) ==
  IF l = <<>> THEN <<>>
  ELSE LET front == DictKeys(SubSeq(l, 1, Len(l) - 1))
           last == l[Len(l)]
       IN IF \E i \in 1..Len(front) : front[i] = last THEN front ELSE Append(front, last)

\* oNode.valid(thumbnails) of the image.thumbnails node: every item matches
\* the variant grammar
ThumbnailsValid(l) == \A i \in 1..Len(l) : GrammarMatch(l[i])

\* the context p after one more step: its log extended by the call, and
\* the fields of `changes` replaced
Logged(p, call) == [op[p] EXCEPT !.log = Append(@, call)]

\* the handler has computed its response
Finished(ctx, result) == [ctx EXCEPT !.pc = "done", !.result = result, !.todo = <<>>]

InCreate == {q \in Proc : op[q].kind = "create" /\ op[q].pc \in {"persist"}}

(***************************************************************************)
(* admin_media_create                                                      *)
(***************************************************************************)
\* the thumbnails of the image section: the requested list, or an empty
\* list when none was passed
RequestedThumbnails(r) == IF r.hasThumbs THEN r.thumbs ELSE <<>>

\* CreateRejection, were the access check left out
CreateRejectionUnverified(r) ==
  IF r.defect = "missing" THEN [code |-> "DATA_FIELDS", data |-> "missing"]
  ELSE [code |-> "none", data |-> ""]

\* the checks before the record is created: the response they end the
\* request with, or NoResult when they all pass
CreateRejection(r) ==
  LET image == IsImageName(r.filename)
  IN IF r.defect = "denied" THEN Result("RIGHTS", "blog_media")
     ELSE IF r.defect = "missing" THEN Result("DATA_FIELDS", "missing")
     ELSE IF r.defect = "b64_type" THEN Result("DATA_FIELDS", "base64 can not decode")
     ELSE IF r.defect = "b64_value" THEN Result("EXCEPTION", "b64decode")
     ELSE IF image /\ r.hasThumbs /\ ~ThumbnailsValid(r.thumbs)
       THEN Result("DATA_FIELDS", "thumbnails")
     ELSE IF image /\ r.defect = "corrupt" THEN Result("DATA_FIELDS", "base64 info")
     ELSE IF image /\ r.defect = "render" /\ RequestedThumbnails(r) # <<>>
       THEN Result("EXCEPTION", "resize")
     ELSE IF r.defect = "schema" THEN Result("DATA_FIELDS", "schema")
     ELSE NoResult

\* CreateFiles, were the rendered thumbnails not put into dFiles
CreateFilesSourceOnly(r) == <<SOURCE>>

\* the keys of dFiles, in insertion order: 'source', then each thumbnail
CreateFiles(r) ==
  IF IsImageName(r.filename)
    THEN <<SOURCE>> \o DictKeys(RequestedThumbnails(r))
    ELSE <<SOURCE>>

\* CreateRecord, were every file given an image section
CreateRecordOfImage(r) == NewRecord(r.filename, TRUE, RequestedThumbnails(r))

\* the record Media(req['data']) holds
CreateRecord(r) ==
  IF IsImageName(r.filename)
    THEN NewRecord(r.filename, TRUE, RequestedThumbnails(r))
    ELSE NewRecord(r.filename, FALSE, <<>>)

\* access check, field check, decoding, image inspection and rendering,
\* and the validation of the record
MediaCreate(p, r, seq) ==
  /\ CanStart(p, seq)
  /\ LET rej == CreateRejection(r)
         ctx == Started(p, "create", r)
     IN IF rej.code # "none"
          THEN op' = [op EXCEPT ![p] = Finished(ctx, rej)]
          ELSE /\ nextId + Cardinality(InCreate) <= MaxAssets
               /\ op' = [op EXCEPT ![p] =
                          [ctx EXCEPT !.pc = "persist", !.rec = CreateRecord(r),
                                      !.todo = CreateFiles(r),
                                      !.req.filename = r.filename,
                                      !.req.thumbs = IF IsImageName(r.filename)
                                                       THEN RequestedThumbnails(r)
                                                       ELSE <<>>]]
  /\ UNCHANGED <<records, storage, nextId, failedDeletes>>
  /\ UNCHANGED category

\* CreateProceeds, were the result of oFile.create() not looked at
CreateProceedsUnchecked(o) == o # "duplicate"

\* `if not oFile.create(...)`, `except DuplicateException`: the handler
\* goes on to the files only when the record was created
CreateProceeds(o) == o = "ok"

\* oFile.create()
MediaCreatePersist(p, F) ==
  /\ op[p].kind = "create" /\ op[p].pc = "persist"
  /\ \E o \in CreateOutcomes(F) :
       LET created == o = "ok"
           ctx == [Logged(p, Call("db_create", RowKey(nextId), created))
                     EXCEPT !.id = nextId]
       IN /\ records' = IF created THEN [records EXCEPT ![nextId] = op[p].rec]
                                   ELSE records
          /\ nextId' = IF created THEN nextId + 1 ELSE nextId
          /\ op' = [op EXCEPT ![p] =
               IF CreateProceeds(o) THEN [ctx EXCEPT !.pc = "save"]
               ELSE Finished(ctx, Result(IF o = "duplicate" THEN "DB_DUPLICATE"
                                                            ELSE "DB_CREATE_FAILED", ""))]
  /\ UNCHANGED <<storage, failedDeletes>>
  /\ UNCHANGED category

\* dFile of the response: the record and the urls of the files
CreateResponse(id, rec, saved) ==
  [id |-> id, record |-> rec,
   urls |-> [s \in {saved[i] : i \in 1..Len(saved)} |->
               StorageUrl(Filename(id, rec.filename, s))]]

\* one turn of the loop over dFiles: MediaStorage.save of the next file
MediaCreateSave(p, F) ==
  /\ op[p].kind = "create" /\ op[p].pc = "save"
  /\ LET sRes == Head(op[p].todo)
         key == Filename(op[p].id, op[p].rec.filename, sRes)
     IN \E ok \in Outcomes(F, "save") :
          /\ storage' = StorageSaved(storage, key, ok)
          /\ LET ctx == [Logged(p, Call("save", key, ok))
                           EXCEPT !.error = ErrorAfter("save", key, ok)]
                 saved == Append(op[p].saved, sRes)
             IN op' = [op EXCEPT ![p] =
                  IF ~ok THEN [ctx EXCEPT !.pc = "rollback_record"]
                  ELSE IF Tail(op[p].todo) = <<>>
                    THEN Finished([ctx EXCEPT !.todo = <<>>, !.saved = saved],
                                  Result("OK", CreateResponse(op[p].id, op[p].rec, saved)))
                  ELSE [ctx EXCEPT !.todo = Tail(@), !.saved = saved]]
  /\ UNCHANGED <<records, nextId, failedDeletes>>
  /\ UNCHANGED category

\* `for sRes in dURLs`: the files the rollback deletes from the storage
RollbackFiles(saved) == saved

\* after a failed save: oFile.delete() as the system user, result unused
MediaCreateRollbackRecord(p, F) ==
  /\ op[p].kind = "create" /\ op[p].pc = "rollback_record"
  /\ \E ok \in Outcomes(F, "db_delete") :
       /\ records' = IF ok THEN MediaDeleted(records, op[p].id) ELSE records
       /\ LET ctx == Logged(p, Call("db_delete", RowKey(op[p].id),
                                    ok /\ records[op[p].id].exists))
          IN op' = [op EXCEPT ![p] =
               IF RollbackFiles(op[p].saved) = <<>>
                 THEN Finished(ctx, Result("STORAGE_ISSUE", op[p].error))
                 ELSE [ctx EXCEPT !.pc = "rollback_storage",
                                  !.todo = RollbackFiles(op[p].saved)]]
  /\ UNCHANGED <<storage, nextId, failedDeletes>>
  /\ UNCHANGED category

\* after a failed save: MediaStorage.delete of each file saved before it,
\* result unused; then the error with MediaStorage.last_error()
MediaCreateRollbackStorage(p, F) ==
  /\ op[p].kind = "create" /\ op[p].pc = "rollback_storage"
  /\ LET key == Filename(op[p].id, op[p].rec.filename, Head(op[p].todo))
     IN \E ok \in Outcomes(F, "delete") :
          /\ storage' = StorageDeleted(storage, key, ok)
          /\ LET ctx == [Logged(p, Call("delete", key, ok))
                           EXCEPT !.error = ErrorAfter("delete", key, ok),
                                  !.todo = Tail(@)]
             IN op' = [op EXCEPT ![p] =
                  IF Tail(op[p].todo) = <<>>
                    THEN Finished(ctx, Result("STORAGE_ISSUE", ctx.error))
                    ELSE ctx]
  /\ UNCHANGED <<records, nextId, failedDeletes>>
  /\ UNCHANGED category

(***************************************************************************)
(* admin_media_delete                                                      *)
(***************************************************************************)
\* access check and the check of the _id field
MediaDelete(p, r, seq) ==
  /\ CanStart(p, seq)
  /\ LET ctx == Started(p, "delete", r)
     IN op' = [op EXCEPT ![p] =
          IF r.defect = "denied" THEN Finished(ctx, Result("RIGHTS", "blog_media"))
          ELSE IF r.defect = "missing" THEN Finished(ctx, Result("DATA_FIELDS", "missing"))
          ELSE [ctx EXCEPT !.pc = "get", !.id = r.id]]
  /\ UNCHANGED <<records, storage, nextId, failedDeletes>>
  /\ UNCHANGED category

\* DeleteFiles, were the thumbnails forgotten
DeleteFilesSourceOnly(rec) == <<SOURCE>>

\* lFilenames: one name per listed thumbnail, then the main file
DeleteFiles(rec) == (IF rec.image THEN rec.thumbnails ELSE <<>>) \o <<SOURCE>>

\* Media.get(_id) and the list of the keys to delete
MediaDeleteGet(p) ==
  /\ op[p].kind = "delete" /\ op[p].pc = "get"
  /\ LET oFile == MediaGet(records, op[p].id)
         ctx == Logged(p, Call("db_get", RowKey(op[p].id), oFile.exists))
     IN op' = [op EXCEPT ![p] =
          IF ~oFile.exists THEN Finished(ctx, Result("DB_NO_RECORD", "media"))
          ELSE [ctx EXCEPT !.pc = "storage_delete", !.rec = oFile,
                           !.todo = DeleteFiles(oFile),
                           !.retry = op[p].id \in failedDeletes]]
  /\ UNCHANGED <<records, storage, nextId, failedDeletes>>
  /\ UNCHANGED category

\* one turn of the loop over lFilenames: MediaStorage.delete of the next key
MediaDeleteStorage(p, F) ==
  /\ op[p].kind = "delete" /\ op[p].pc = "storage_delete"
  /\ LET key == Filename(op[p].id, op[p].rec.filename, Head(op[p].todo))
     IN \E ok \in Outcomes(F, "delete") :
          /\ storage' = StorageDeleted(storage, key, ok)
          /\ LET ctx == [Logged(p, Call("delete", key, ok))
                           EXCEPT !.error = ErrorAfter("delete", key, ok)]
             IN op' = [op EXCEPT ![p] =
                  IF ~ok THEN Finished(ctx, Result("STORAGE_ISSUE", ctx.error))
                  ELSE IF Tail(op[p].todo) = <<>>
                    THEN [ctx EXCEPT !.pc = "record_delete", !.todo = <<>>]
                  ELSE [ctx EXCEPT !.todo = Tail(@)]]
          /\ failedDeletes' = IF ok THEN failedDeletes
                                    ELSE failedDeletes \cup {op[p].id}
  /\ UNCHANGED <<records, nextId>>
  /\ UNCHANGED category

\* DeleteResponse, were delete to answer True whatever oFile.delete returns
DeleteResponseAlwaysTrue(deleted) == Result("OK", TRUE)

\* Services.Response(oFile.delete(...))
DeleteResponse(deleted) == Result("OK", deleted)

\* oFile.delete(), and its result as the response
MediaDeleteRecord(p, F) ==
  /\ op[p].kind = "delete" /\ op[p].pc = "record_delete"
  /\ \E ok \in Outcomes(F, "db_delete") :
       LET deleted == ok /\ records[op[p].id].exists
       IN /\ records' = IF deleted THEN MediaDeleted(records, op[p].id) ELSE records
          /\ op' = [op EXCEPT ![p] =
               Finished(Logged(p, Call("db_delete", RowKey(op[p].id), deleted)),
                        DeleteResponse(deleted))]
          /\ failedDeletes' = IF deleted THEN failedDeletes \ {op[p].id}
                                         ELSE failedDeletes
  /\ UNCHANGED <<storage, nextId>>
  /\ UNCHANGED category
(***************************************************************************)
(* admin_media_thumbnail_create                                            *)
(***************************************************************************)
\* Listed, were no size ever found in the list
ListedNever(thumbnails, size) == FALSE

\* Listed, were every size found in the list
ListedAlways(thumbnails, size) == TRUE

\* `size in thumbnails`
Listed(thumbnails, size) == \E i \in 1..Len(thumbnails) : thumbnails[i] = size

\* access check, field check and the check of the size
MediaThumbnailCreate(p, r, seq) ==
  /\ CanStart(p, seq)
  /\ LET ctx == Started(p, "thumbnail_create", r)
     IN op' = [op EXCEPT ![p] =
          IF r.defect = "denied" THEN Finished(ctx, Result("RIGHTS", "blog_media"))
          ELSE IF r.defect = "missing" THEN Finished(ctx, Result("DATA_FIELDS", "missing"))
          ELSE IF ~DimensionsMatch(r.size) THEN Finished(ctx, Result("DATA_FIELDS", "size"))
          ELSE [ctx EXCEPT !.pc = "get", !.id = r.id]]
  /\ UNCHANGED <<records, storage, nextId, failedDeletes>>
  /\ UNCHANGED category

\* Media.get(_id), the image check and the duplicate check
MediaThumbnailCreateGet(p) ==
  /\ op[p].kind = "thumbnail_create" /\ op[p].pc = "get"
  /\ LET oFile == MediaGet(records, op[p].id)
         ctx == Logged(p, Call("db_get", RowKey(op[p].id), oFile.exists))
     IN op' = [op EXCEPT ![p] =
          IF ~oFile.exists THEN Finished(ctx, Result("DB_NO_RECORD", "media"))
          ELSE IF ~oFile.image THEN Finished(ctx, Result("NOT_AN_IMAGE", "media"))
          ELSE IF Listed(oFile.thumbnails, op[p].req.size)
            THEN Finished(ctx, Result("DB_DUPLICATE", "media_thumbnail"))
          ELSE [ctx EXCEPT !.pc = "open", !.rec = oFile]]
  /\ UNCHANGED <<records, storage, nextId, failedDeletes>>
  /\ UNCHANGED category

\* MediaStorage.open of the source, and Image.resize of what it returns
MediaThumbnailCreateOpen(p, F) ==
  /\ op[p].kind = "thumbnail_create" /\ op[p].pc = "open"
  /\ LET key == Filename(op[p].id, op[p].rec.filename, SOURCE)
     IN \E ok \in Outcomes(F, "open"), resized \in Outcomes(F, "resize") :
          LET opened == StorageOpens(storage, key, ok)
              ctx == [Logged(p, Call("open", key, opened))
                        EXCEPT !.error = ErrorAfter("open", key, opened)]
          IN op' = [op EXCEPT ![p] =
               IF ~opened THEN Finished(ctx, Result("STORAGE_ISSUE", ctx.error))
               ELSE IF ~resized THEN Finished(ctx, Result("EXCEPTION", "resize"))
               ELSE [ctx EXCEPT !.pc = "save"]]
  /\ UNCHANGED <<records, storage, nextId, failedDeletes>>
  /\ UNCHANGED category

\* ThumbnailSaveProceeds, were the result of MediaStorage.save not looked at
ThumbnailSaveUnchecked(ok) == TRUE

\* `if not MediaStorage.save(...)`: the handler goes on to the record only
\* when the thumbnail was saved
ThumbnailSaveProceeds(ok) == ok

\* MediaStorage.save of the thumbnail
MediaThumbnailCreateSave(p, F) ==
  /\ op[p].kind = "thumbnail_create" /\ op[p].pc = "save"
  /\ LET key == Filename(op[p].id, op[p].rec.filename, op[p].req.size)
     IN \E ok \in Outcomes(F, "save") :
          /\ storage' = StorageSaved(storage, key, ok)
          /\ LET ctx == [Logged(p, Call("save", key, ok))
                           EXCEPT !.error = ErrorAfter("save", key, ok)]
             IN op' = [op EXCEPT ![p] =
                  IF ~ThumbnailSaveProceeds(ok)
                    THEN Finished(ctx, Result("STORAGE_ISSUE", ctx.error))
                    ELSE [ctx EXCEPT !.pc = "persist"]]
  /\ UNCHANGED <<records, nextId, failedDeletes>>
  /\ UNCHANGED category

\* ThumbnailAppended, were the size not appended
ThumbnailNotAppended(thumbnails, size) == thumbnails

\* dImage['thumbnails'].append(size)
ThumbnailAppended(thumbnails, size) == Append(thumbnails, size)

\* oFile['image'] = dImage; oFile.save(); the url of the thumbnail
MediaThumbnailCreatePersist(p, F) ==
  /\ op[p].kind = "thumbnail_create" /\ op[p].pc = "persist"
  /\ LET key == Filename(op[p].id, op[p].rec.filename, op[p].req.size)
         thumbnails == ThumbnailAppended(op[p].rec.thumbnails, op[p].req.size)
     IN \E ok \in Outcomes(F, "db_save") :
          LET bRes == ok /\ records[op[p].id].exists
              ctx == [Logged(p, Call("db_save", RowKey(op[p].id), bRes))
                        EXCEPT !.rec.thumbnails = thumbnails]
          IN /\ records' = IF bRes THEN MediaSaved(records, op[p].id, thumbnails)
                                   ELSE records
             /\ op' = [op EXCEPT ![p] =
                  IF bRes THEN Finished(ctx, Result("OK", StorageUrl(key)))
                          ELSE Finished(ctx, Result("DB_UPDATE_FAILED", ""))]
  /\ UNCHANGED <<storage, nextId, failedDeletes>>
  /\ UNCHANGED category

(***************************************************************************)
(* admin_media_thumbnail_delete                                            *)
(***************************************************************************)
\* access check, field check and the check of the size
MediaThumbnailDelete(p, r, seq) ==
  /\ CanStart(p, seq)
  /\ LET ctx == Started(p, "thumbnail_delete", r)
     IN op' = [op EXCEPT ![p] =
          IF r.defect = "denied" THEN Finished(ctx, Result("RIGHTS", "blog_media"))
          ELSE IF r.defect = "missing" THEN Finished(ctx, Result("DATA_FIELDS", "missing"))
          ELSE IF ~DimensionsMatch(r.size) THEN Finished(ctx, Result("DATA_FIELDS", "size"))
          ELSE [ctx EXCEPT !.pc = "get", !.id = r.id]]
  /\ UNCHANGED <<records, storage, nextId, failedDeletes>>
  /\ UNCHANGED category

\* Media.get(_id), the image check and the check that the size is listed
MediaThumbnailDeleteGet(p) ==
  /\ op[p].kind = "thumbnail_delete" /\ op[p].pc = "get"
  /\ LET oFile == MediaGet(records, op[p].id)
         ctx == Logged(p, Call("db_get", RowKey(op[p].id), oFile.exists))
     IN op' = [op EXCEPT ![p] =
          IF ~oFile.exists THEN Finished(ctx, Result("DB_NO_RECORD", "media"))
          ELSE IF ~oFile.image THEN Finished(ctx, Result("NOT_AN_IMAGE", "media"))
          ELSE IF ~Listed(oFile.thumbnails, op[p].req.size)
            THEN Finished(ctx, Result("OK", FALSE))
          ELSE [ctx EXCEPT !.pc = "storage_delete", !.rec = oFile]]
  /\ UNCHANGED <<records, storage, nextId, failedDeletes>>
  /\ UNCHANGED category

\* ThumbnailDeleteProceeds, were the result of MediaStorage.delete not
\* looked at
ThumbnailDeleteUnchecked(ok) == TRUE

\* `if not MediaStorage.delete(...)`: the handler goes on to the record
\* only when the thumbnail was deleted
ThumbnailDeleteProceeds(ok) == ok

\* MediaStorage.delete of the thumbnail
MediaThumbnailDeleteStorage(p, F) ==
  /\ op[p].kind = "thumbnail_delete" /\ op[p].pc = "storage_delete"
  /\ LET key == Filename(op[p].id, op[p].rec.filename, op[p].req.size)
     IN \E ok \in Outcomes(F, "delete") :
          /\ storage' = StorageDeleted(storage, key, ok)
          /\ LET ctx == [Logged(p, Call("delete", key, ok))
                           EXCEPT !.error = ErrorAfter("delete", key, ok)]
             IN op' = [op EXCEPT ![p] =
                  IF ~ThumbnailDeleteProceeds(ok)
                    THEN Finished(ctx, Result("STORAGE_ISSUE", ctx.error))
                    ELSE [ctx EXCEPT !.pc = "persist"]]
  /\ UNCHANGED <<records, nextId, failedDeletes>>
  /\ UNCHANGED category

\* dImage['thumbnails'].remove(size): list.remove drops the first item
\* equal to size
ThumbnailRemoved(thumbnails, size) ==
  LET i == CHOOSE j \in 1..Len(thumbnails) :
             thumbnails[j] = size /\ \A k \in 1..(j - 1) : thumbnails[k] # size
  IN SubSeq(thumbnails, 1, i - 1) \o SubSeq(thumbnails, i + 1, Len(thumbnails))

\* oFile['image'] = dImage; oFile.save()
MediaThumbnailDeletePersist(p, F) ==
  /\ op[p].kind = "thumbnail_delete" /\ op[p].pc = "persist"
  /\ LET thumbnails == ThumbnailRemoved(op[p].rec.thumbnails, op[p].req.size)
     IN \E ok \in Outcomes(F, "db_save") :
          LET bRes == ok /\ records[op[p].id].exists
              ctx == [Logged(p, Call("db_save", RowKey(op[p].id), bRes))
                        EXCEPT !.rec.thumbnails = thumbnails]
          IN /\ records' = IF bRes THEN MediaSaved(records, op[p].id, thumbnails)
                                   ELSE records
             /\ op' = [op EXCEPT ![p] =
                  IF bRes THEN Finished(ctx, Result("OK", TRUE))
                          ELSE Finished(ctx, Result("DB_UPDATE_FAILED", ""))]
  /\ UNCHANGED <<storage, nextId, failedDeletes>>
  /\ UNCHANGED category

(***************************************************************************)
(* admin_media_url_read                                                    *)
(***************************************************************************)
\* UrlResponse, were the size of the request not looked at
UrlResponseOfSource(dFile, id, hasSize, size) ==
  IF ~dFile.exists THEN [code |-> "DB_NO_RECORD", data |-> "media"]
  ELSE [code |-> "OK", data |-> StorageUrl(Filename(id, dFile.filename, SOURCE))]

\* what the handler answers on the record Media.get returned
UrlResponse(dFile, id, hasSize, size) ==
  IF ~dFile.exists THEN Result("DB_NO_RECORD", "media")
  ELSE IF hasSize /\ ~dFile.image THEN Result("NOT_AN_IMAGE", "media")
  ELSE IF hasSize /\ ~Listed(dFile.thumbnails, size)
    THEN Result("DB_NO_RECORD", "media_thumbnail")
  ELSE Result("OK", StorageUrl(Filename(id, dFile.filename, IF hasSize THEN size ELSE SOURCE)))

\* access check and the check of the _id field
MediaUrlRead(p, r, seq) ==
  /\ CanStart(p, seq)
  /\ LET ctx == Started(p, "url_read", r)
     IN op' = [op EXCEPT ![p] =
          IF r.defect = "denied" THEN Finished(ctx, Result("RIGHTS", "blog_media"))
          ELSE IF r.defect = "missing" THEN Finished(ctx, Result("DATA_FIELDS", "missing"))
          ELSE [ctx EXCEPT !.pc = "get", !.id = r.id]]
  /\ UNCHANGED <<records, storage, nextId, failedDeletes>>
  /\ UNCHANGED category

\* Media.get(_id, raw) and the url of the key
MediaUrlReadGet(p) ==
  /\ op[p].kind = "url_read" /\ op[p].pc = "get"
  /\ LET dFile == MediaGet(records, op[p].id)
     IN op' = [op EXCEPT ![p] =
          Finished([Logged(p, Call("db_get", RowKey(op[p].id), dFile.exists))
                      EXCEPT !.rec = dFile],
                   UrlResponse(dFile, op[p].id, op[p].req.hasSize, op[p].req.size))]
  /\ UNCHANGED <<records, storage, nextId, failedDeletes>>
  /\ UNCHANGED category

(***************************************************************************)
(* admin_media_filter_read                                                 *)
(***************************************************************************)
\* the filter requests: a range or none, no filename, an empty one or some
\* text, 'mine' or not, and images_only missing, false or true
FilterRequests ==
  [defect : {"none", "denied"}, hasRange : BOOLEAN,
   filename : {"absent", "empty", "text"}, hasMine : BOOLEAN,
   imagesOnly : {"absent", "false", "true"}]

\* dFilter: the keys the handler puts into the filter
FilterKeys(r) ==
  (IF r.hasRange THEN {"range"} ELSE {})
    \cup (IF r.filename = "text" THEN {"filename"} ELSE {})
    \cup (IF r.hasMine THEN {"mine"} ELSE {})
    \cup (IF r.imagesOnly = "true" THEN {"images_only"} ELSE {})

\* `if not dFilter`: the handler goes on to the records when the filter has
\* a key
FilterProceeds(keys) == keys # {}

\* access check, and the filter of the request
MediaFilterRead(p, r, seq) ==
  /\ CanStart(p, seq)
  /\ LET ctx == Started(p, "filter_read", [NoRequest EXCEPT !.defect = r.defect])
     IN op' = [op EXCEPT ![p] =
          IF r.defect = "denied" THEN Finished(ctx, Result("RIGHTS", "blog_media"))
          ELSE IF ~FilterProceeds(FilterKeys(r))
            THEN Finished(ctx, Result("DATA_FIELDS", "range"))
          ELSE [ctx EXCEPT !.pc = "search"]]
  /\ UNCHANGED <<records, storage, nextId, failedDeletes>>
  /\ UNCHANGED category

\* the records of the response, each with the urls of its files
FilterResponse(recs, ids) ==
  [i \in ids |->
     [s \in {SOURCE} \cup {recs[i].thumbnails[k] : k \in 1..Len(recs[i].thumbnails)} |->
        StorageUrl(Filename(i, recs[i].filename, s))]]

\* Media.search(dFilter), a query of the record library: it raises, or gives
\* some of the records; then the urls of each
MediaFilterSearch(p) ==
  /\ op[p].kind = "filter_read" /\ op[p].pc = "search"
  /\ \E raised \in BOOLEAN :
       \E ids \in SUBSET {i \in Ids : records[i].exists} :
         /\ raised => ids = {}
         /\ op' = [op EXCEPT ![p] =
              Finished(Logged(p, Call("db_search", RowKey(0), ~raised)),
                       IF raised THEN Result("EXCEPTION", "search")
                       ELSE Result("OK", FilterResponse(records, ids)))]
  /\ UNCHANGED <<records, storage, nextId, failedDeletes>>
  /\ UNCHANGED category

(***************************************************************************)
(* admin_media_read                                                        *)
(***************************************************************************)
ReadRequests ==
  [defect : {"none", "denied", "missing"}, filename : {<<>>}, hasThumbs : {FALSE},
   thumbs : {<<>>}, id : Ids, hasSize : {FALSE}, size : {<<>>}]

\* access check and the check of the _id field
MediaRead(p, r, seq) ==
  /\ CanStart(p, seq)
  /\ LET ctx == Started(p, "read", r)
     IN op' = [op EXCEPT ![p] =
          IF r.defect = "denied" THEN Finished(ctx, Result("RIGHTS", "blog_media"))
          ELSE IF r.defect = "missing" THEN Finished(ctx, Result("DATA_FIELDS", "missing"))
          ELSE [ctx EXCEPT !.pc = "get", !.id = r.id]]
  /\ UNCHANGED <<records, storage, nextId, failedDeletes>>
  /\ UNCHANGED category

\* Media.get(_id, raw)
MediaReadGet(p) ==
  /\ op[p].kind = "read" /\ op[p].pc = "get"
  /\ LET dFile == MediaGet(records, op[p].id)
         ctx == Logged(p, Call("db_get", RowKey(op[p].id), dFile.exists))
     IN op' = [op EXCEPT ![p] =
          IF ~dFile.exists THEN Finished(ctx, Result("DB_NO_RECORD", "media"))
          ELSE [ctx EXCEPT !.pc = "open", !.rec = dFile]]
  /\ UNCHANGED <<records, storage, nextId, failedDeletes>>
  /\ UNCHANGED category

\* MediaStorage.open of the source, and the record with its content
MediaReadOpen(p, F) ==
  /\ op[p].kind = "read" /\ op[p].pc = "open"
  /\ LET key == Filename(op[p].id, op[p].rec.filename, SOURCE)
     IN \E ok \in Outcomes(F, "open") :
          LET opened == StorageOpens(storage, key, ok)
              ctx == [Logged(p, Call("open", key, opened))
                        EXCEPT !.error = ErrorAfter("open", key, opened)]
          IN op' = [op EXCEPT ![p] =
               IF ~opened THEN Finished(ctx, Result("STORAGE_ISSUE", ctx.error))
               ELSE Finished(ctx, Result("OK", [record |-> op[p].rec, base64 |-> key]))]
  /\ UNCHANGED <<records, storage, nextId, failedDeletes>>
  /\ UNCHANGED category

(***************************************************************************)
(* Categories and their locales: admin_category_create, _delete, _update,  *)
(* admin_category_locale_create, _delete, _update                          *)
(***************************************************************************)
\* number of categories that are ever created
MaxCategories == 2

CategoryIds == 1..MaxCategories
LocaleCodes == {"en", "fr"}
Slugs == {"s1", "s2", "s3"}

\* the calls to the category tables that may fail; loc_duplicate is a
\* DuplicateException of CategoryLocale.create on another index than those
\* of the slug and of the locale
CategoryFaults ==
  {"cat_create", "cat_delete", "loc_create", "loc_delete", "loc_save", "loc_duplicate"}

\* a row of the category locale table
LocaleRow(c, l, s) == [category |-> c, locale |-> l, slug |-> s]

LocaleKey(c, l) == <<c, <<l>>>>

\* CategoryLocale.exists(slug, 'slug')
SlugExists(rows, s) == \E row \in rows : row.slug = s

\* CategoryLocale.count(filter = {'_category': _id})
LocaleCount(rows, c) == Cardinality({row \in rows : row.category = c})

\* CategoryLocale.filter({'_category': _id, '_locale': locale})
LocaleFilter(rows, c, l) == {row \in rows : row.category = c /\ row.locale = l}

\* what CategoryLocale.create() of the row does: a DuplicateException that
\* names the index of the slug, that of the locale of the category, or
\* another one; the row inserted; or False returned
LocaleCreateOutcomes(rows, c, l, s, F) ==
  IF SlugExists(rows, s) THEN {"slug"}
  ELSE IF LocaleFilter(rows, c, l) # {} THEN {"_locale"}
  ELSE {"created"} \cup (IF "loc_create" \in F THEN {"failed"} ELSE {})
                   \cup (IF "loc_duplicate" \in F THEN {"unknown"} ELSE {})

\* the rows of a set in the orders a filter may return them in
RowOrders(rows) ==
  {l \in [1..Cardinality(rows) -> rows] : \A i, j \in 1..Cardinality(rows) : l[i] = l[j] => i = j}

\* record.locales of a create request: locale and slug pairs in the order
\* of the dict, no locale twice
LocaleLists ==
  {<<>>} \cup {<<x>> : x \in LocaleCodes \X Slugs}
    \cup {l \in (LocaleCodes \X Slugs) \X (LocaleCodes \X Slugs) : l[1][1] # l[2][1]}

\* what is wrong with a category request, if anything: access denied, a
\* required field missing, locales that are no dict, a locale the schema
\* rejects; `rejected` is the place in record.locales of the locale the
\* schema rejects, 0 when it rejects none
CategoryCreateRequests ==
  {r \in [defect : {"none", "denied", "missing", "invalid", "schema"},
          rejected : 0..2, locales : LocaleLists] :
     /\ r.rejected <= Len(r.locales)
     /\ r.defect = "schema" <=> r.rejected > 0}

CategoryDeleteRequests ==
  [defect : {"none", "denied", "missing", "posts"}, id : CategoryIds]

CategoryLocaleCreateRequests ==
  [defect : {"none", "denied", "missing", "schema"}, id : CategoryIds,
   locale : LocaleCodes, slug : Slugs]

CategoryLocaleDeleteRequests ==
  [defect : {"none", "denied", "missing"}, id : CategoryIds, locale : LocaleCodes]

CategoryLocaleUpdateRequests ==
  [defect : {"none", "denied", "missing", "schema"}, id : CategoryIds,
   locale : LocaleCodes, slug : Slugs]

\* record.locales of an update request is the dict of the create request,
\* or a list of pairs of a locale and its record (`pairs`)
CategoryUpdateRequests ==
  {r \in [defect : {"none", "denied", "missing", "schema"}, id : CategoryIds,
          pairs : BOOLEAN, rejected : 0..2, locales : LocaleLists] :
     /\ r.rejected <= Len(r.locales)
     /\ r.defect = "schema" <=> r.rejected > 0}

\* the context of a category request that starts
CategoryStarted(p, kind, id, locale) ==
  [Started(p, kind, NoRequest) EXCEPT !.req.id = id, !.locale = locale]

\* the checks of create before the loop over the locales: the response they
\* end the request with, or NoResult when they all pass
CategoryCreateRejection(r) ==
  IF r.defect = "denied" THEN Result("RIGHTS", "blog_category")
  ELSE IF r.defect = "missing" THEN Result("DATA_FIELDS", "missing")
  ELSE IF r.locales = <<>> THEN Result("DATA_FIELDS", "record.locales")
  ELSE IF r.defect = "invalid" THEN Result("DATA_FIELDS", "invalid")
  ELSE NoResult

\* admin_category_create: access check and the checks of record.locales
CategoryCreate(p, r, seq) ==
  /\ CanStart(p, seq)
  /\ LET rej == CategoryCreateRejection(r)
         ctx == CategoryStarted(p, "category_create", 0, "")
     IN IF rej.code # "none"
          THEN op' = [op EXCEPT ![p] = Finished(ctx, rej)]
          ELSE /\ nextCategory <= MaxCategories
               /\ op' = [op EXCEPT ![p] = [ctx EXCEPT !.pc = "validate",
                                                      !.todo = r.locales,
                                                      !.rejected = r.rejected]]
  /\ UNCHANGED <<records, storage, nextId, failedDeletes>>
  /\ UNCHANGED category

\* one turn of the loop over record.locales: CategoryLocale(d) validates
\* the locale, then CategoryLocale.exists(d['slug'], 'slug') reads the table
CategoryCreateValidate(p) ==
  /\ op[p].kind = "category_create" /\ op[p].pc = "validate"
  /\ LET o == Head(op[p].todo)
         found == SlugExists(locales, o[2])
         ctx == Logged(p, Call("loc_exists", <<0, <<o[2]>>>>, found))
     IN op' = [op EXCEPT ![p] =
          IF op[p].rejected = Len(op[p].saved) + 1
            THEN Finished(op[p], Result("DATA_FIELDS", "schema"))
          ELSE IF found THEN Finished(ctx, Result("DB_DUPLICATE", "slug"))
          ELSE IF Tail(op[p].todo) = <<>>
            THEN [ctx EXCEPT !.pc = "persist", !.todo = Append(op[p].saved, o),
                             !.saved = <<>>]
          ELSE [ctx EXCEPT !.todo = Tail(@), !.saved = Append(@, o)]]
  /\ UNCHANGED <<records, storage, nextId, failedDeletes>>
  /\ UNCHANGED category

\* oCategory.create()
CategoryCreatePersist(p, F) ==
  /\ op[p].kind = "category_create" /\ op[p].pc = "persist"
  /\ \E ok \in Outcomes(F, "cat_create") :
       LET ctx == [Logged(p, Call("cat_create", RowKey(nextCategory), ok))
                     EXCEPT !.id = nextCategory]
       IN /\ categories' = IF ok THEN categories \cup {nextCategory} ELSE categories
          /\ nextCategory' = IF ok THEN nextCategory + 1 ELSE nextCategory
          /\ op' = [op EXCEPT ![p] =
               IF ok THEN [ctx EXCEPT !.pc = "locales"]
               ELSE Finished(ctx, Result("DB_CREATE_FAILED", "category"))]
  /\ UNCHANGED <<records, storage, nextId, failedDeletes, locales, flawedCreates>>

\* one turn of the loop over lLocales: o.create(), its result unused; a
\* DuplicateException starts the rollback
CategoryCreateLocale(p, F) ==
  /\ op[p].kind = "category_create" /\ op[p].pc = "locales"
  /\ LET o == Head(op[p].todo)
         c == op[p].id
     IN \E out \in LocaleCreateOutcomes(locales, c, o[1], o[2], F) :
          LET ok == out = "created"
              ctx == Logged(p, Call("loc_create", LocaleKey(c, o[1]), ok))
          IN IF out \in {"slug", "_locale", "unknown"}
               THEN /\ op' = [op EXCEPT ![p] = [ctx EXCEPT !.pc = "rollback_category"]]
                    /\ UNCHANGED <<locales, flawedCreates>>
               ELSE /\ locales' = IF ok THEN locales \cup {LocaleRow(c, o[1], o[2])}
                                        ELSE locales
                    /\ flawedCreates' = IF ok THEN flawedCreates
                                              ELSE flawedCreates \cup {c}
                    /\ LET next == [ctx EXCEPT !.todo = Tail(@),
                                               !.saved = IF ok THEN Append(@, o) ELSE @]
                       IN op' = [op EXCEPT ![p] =
                            IF Tail(op[p].todo) = <<>>
                              THEN Finished(next, Result("OK", c))
                              ELSE next]
  /\ UNCHANGED <<records, storage, nextId, failedDeletes, categories, nextCategory>>

\* after a DuplicateException: oCategory.delete(), its result unused
CategoryCreateRollbackCategory(p, F) ==
  /\ op[p].kind = "category_create" /\ op[p].pc = "rollback_category"
  /\ \E ok \in Outcomes(F, "cat_delete") :
       /\ categories' = IF ok THEN categories \ {op[p].id} ELSE categories
       /\ flawedCreates' = IF ok THEN flawedCreates ELSE flawedCreates \cup {op[p].id}
       /\ LET ctx == Logged(p, Call("cat_delete", RowKey(op[p].id), ok))
          IN op' = [op EXCEPT ![p] =
               IF op[p].saved = <<>>
                 THEN Finished(ctx, Result("DB_DUPLICATE", "slug"))
                 ELSE [ctx EXCEPT !.pc = "rollback_locales", !.todo = op[p].saved]]
  /\ UNCHANGED <<records, storage, nextId, failedDeletes, locales, nextCategory>>

\* after a DuplicateException: o2.delete() of each locale that was created,
\* its result unused; then the duplicate error
CategoryCreateRollbackLocale(p, F) ==
  /\ op[p].kind = "category_create" /\ op[p].pc = "rollback_locales"
  /\ LET o == Head(op[p].todo)
         c == op[p].id
     IN \E ok \in Outcomes(F, "loc_delete") :
          /\ locales' = IF ok THEN locales \ {LocaleRow(c, o[1], o[2])} ELSE locales
          /\ flawedCreates' = IF ok THEN flawedCreates ELSE flawedCreates \cup {c}
          /\ LET ctx == [Logged(p, Call("loc_delete", LocaleKey(c, o[1]), ok))
                           EXCEPT !.todo = Tail(@)]
             IN op' = [op EXCEPT ![p] =
                  IF Tail(op[p].todo) = <<>>
                    THEN Finished(ctx, Result("DB_DUPLICATE", "slug"))
                    ELSE ctx]
  /\ UNCHANGED <<records, storage, nextId, failedDeletes, categories, nextCategory>>

\* admin_category_delete: access check and the check of the fields
CategoryDelete(p, r, seq) ==
  /\ CanStart(p, seq)
  /\ LET ctx == [CategoryStarted(p, "category_delete", r.id, "")
                   EXCEPT !.req.defect = r.defect]
     IN op' = [op EXCEPT ![p] =
          IF r.defect = "denied" THEN Finished(ctx, Result("RIGHTS", "blog_category"))
          ELSE IF r.defect = "missing" THEN Finished(ctx, Result("DATA_FIELDS", "missing"))
          ELSE [ctx EXCEPT !.pc = "get", !.id = r.id]]
  /\ UNCHANGED <<records, storage, nextId, failedDeletes>>
  /\ UNCHANGED category

\* Category.get(_id)
CategoryDeleteGet(p) ==
  /\ op[p].kind = "category_delete" /\ op[p].pc = "get"
  /\ LET found == op[p].id \in categories
         ctx == Logged(p, Call("cat_get", RowKey(op[p].id), found))
     IN op' = [op EXCEPT ![p] =
          IF ~found THEN Finished(ctx, Result("DB_NO_RECORD", "category"))
          ELSE [ctx EXCEPT !.pc = "posts"]]
  /\ UNCHANGED <<records, storage, nextId, failedDeletes>>
  /\ UNCHANGED category

\* Post.filter({'category': _id}): the posts of the category, which no
\* request on categories changes
CategoryDeletePosts(p) ==
  /\ op[p].kind = "category_delete" /\ op[p].pc = "posts"
  /\ LET lPosts == op[p].req.defect = "posts"
         ctx == Logged(p, Call("post_filter", RowKey(op[p].id), lPosts))
     IN op' = [op EXCEPT ![p] =
          IF lPosts THEN Finished(ctx, Result("POSTS_ASSOCIATED", "posts"))
          ELSE [ctx EXCEPT !.pc = "filter"]]
  /\ UNCHANGED <<records, storage, nextId, failedDeletes>>
  /\ UNCHANGED category

\* CategoryLocale.filter({'_category': _id}): the locales of the category,
\* in the order the database returns them
CategoryDeleteFilter(p) ==
  /\ op[p].kind = "category_delete" /\ op[p].pc = "filter"
  /\ LET rows == {row \in locales : row.category = op[p].id}
         ctx == Logged(p, Call("loc_filter", RowKey(op[p].id), rows # {}))
     IN \E l \in RowOrders(rows) :
          op' = [op EXCEPT ![p] =
            IF rows = {} THEN [ctx EXCEPT !.pc = "record_delete"]
            ELSE [ctx EXCEPT !.pc = "locales_delete",
                             !.todo = [i \in 1..Len(l) |-> <<l[i].locale, l[i].slug>>]]]
  /\ UNCHANGED <<records, storage, nextId, failedDeletes>>
  /\ UNCHANGED category

\* one turn of the loop over lLocales: o.delete(), and the error when it
\* returns False
CategoryDeleteLocale(p, F) ==
  /\ op[p].kind = "category_delete" /\ op[p].pc = "locales_delete"
  /\ LET o == Head(op[p].todo)
         rows == LocaleFilter(locales, op[p].id, o[1])
     IN \E ok \in Outcomes(F, "loc_delete") :
          LET deleted == ok /\ rows # {}
              ctx == [Logged(p, Call("loc_delete", LocaleKey(op[p].id, o[1]), deleted))
                        EXCEPT !.todo = Tail(@)]
          IN /\ locales' = IF deleted THEN locales \ rows ELSE locales
             /\ op' = [op EXCEPT ![p] =
                  IF ~deleted THEN Finished(ctx, Result("DB_DELETE_FAILED", "category_locale"))
                  ELSE IF Tail(op[p].todo) = <<>> THEN [ctx EXCEPT !.pc = "record_delete"]
                  ELSE ctx]
  /\ UNCHANGED <<records, storage, nextId, failedDeletes, categories, nextCategory,
                 flawedCreates>>

\* oCategory.delete()
CategoryDeleteRecord(p, F) ==
  /\ op[p].kind = "category_delete" /\ op[p].pc = "record_delete"
  /\ \E ok \in Outcomes(F, "cat_delete") :
       LET deleted == ok /\ op[p].id \in categories
       IN /\ categories' = IF deleted THEN categories \ {op[p].id} ELSE categories
          /\ op' = [op EXCEPT ![p] =
               Finished(Logged(p, Call("cat_delete", RowKey(op[p].id), deleted)),
                        IF deleted THEN Result("OK", TRUE)
                                   ELSE Result("DB_DELETE_FAILED", "category"))]
  /\ UNCHANGED <<records, storage, nextId, failedDeletes, locales, nextCategory,
                 flawedCreates>>

\* admin_category_locale_create: access check and the check of the fields
CategoryLocaleCreate(p, r, seq) ==
  /\ CanStart(p, seq)
  /\ LET ctx == CategoryStarted(p, "category_locale_create", r.id, r.locale)
     IN op' = [op EXCEPT ![p] =
          IF r.defect = "denied" THEN Finished(ctx, Result("RIGHTS", "blog_category"))
          ELSE IF r.defect = "missing" THEN Finished(ctx, Result("DATA_FIELDS", "missing"))
          ELSE [ctx EXCEPT !.pc = "exists", !.id = r.id,
                           !.todo = <<<<r.locale, r.slug>>>>,
                           !.retry = r.defect = "schema"]]
  /\ UNCHANGED <<records, storage, nextId, failedDeletes>>
  /\ UNCHANGED category

\* Category.exists(_id), and the validation of the locale record
CategoryLocaleCreateExists(p) ==
  /\ op[p].kind = "category_locale_create" /\ op[p].pc = "exists"
  /\ LET found == op[p].id \in categories
         ctx == [Logged(p, Call("cat_exists", RowKey(op[p].id), found))
                   EXCEPT !.retry = FALSE]
     IN op' = [op EXCEPT ![p] =
          IF ~found THEN Finished(ctx, Result("DB_NO_RECORD", "category"))
          ELSE IF op[p].retry THEN Finished(ctx, Result("DATA_FIELDS", "schema"))
          ELSE [ctx EXCEPT !.pc = "persist"]]
  /\ UNCHANGED <<records, storage, nextId, failedDeletes>>
  /\ UNCHANGED category

\* what the handler does with the outcome of oLocale.create(): the
\* duplicate error for the index of the slug; dRecord['locale'], a key the
\* record does not hold, for that of the locale; 'unknown' for another
\* index; and True whatever create() returned
LocaleCreateResponse(out) ==
  IF out = "slug" THEN Result("DB_DUPLICATE", "slug")
  ELSE IF out = "_locale" THEN Result("EXCEPTION", "KeyError")
  ELSE IF out = "unknown" THEN Result("DB_DUPLICATE", "unknown")
  ELSE Result("OK", TRUE)

\* oLocale.create(), its result unused, and the DuplicateException
CategoryLocaleCreatePersist(p, F) ==
  /\ op[p].kind = "category_locale_create" /\ op[p].pc = "persist"
  /\ LET o == Head(op[p].todo)
         c == op[p].id
     IN \E out \in LocaleCreateOutcomes(locales, c, o[1], o[2], F) :
          LET ok == out = "created"
          IN /\ locales' = IF ok THEN locales \cup {LocaleRow(c, o[1], o[2])}
                                 ELSE locales
             /\ op' = [op EXCEPT ![p] =
                  Finished(Logged(p, Call("loc_create", LocaleKey(c, o[1]), ok)),
                           LocaleCreateResponse(out))]
  /\ UNCHANGED <<records, storage, nextId, failedDeletes, categories, nextCategory,
                 flawedCreates>>

\* admin_category_locale_delete: access check and the check of the fields
CategoryLocaleDelete(p, r, seq) ==
  /\ CanStart(p, seq)
  /\ LET ctx == CategoryStarted(p, "category_locale_delete", r.id, r.locale)
     IN op' = [op EXCEPT ![p] =
          IF r.defect = "denied" THEN Finished(ctx, Result("RIGHTS", "blog_category"))
          ELSE IF r.defect = "missing" THEN Finished(ctx, Result("DATA_FIELDS", "missing"))
          ELSE [ctx EXCEPT !.pc = "exists", !.id = r.id]]
  /\ UNCHANGED <<records, storage, nextId, failedDeletes>>
  /\ UNCHANGED category

\* Category.exists(_id)
CategoryLocaleDeleteExists(p) ==
  /\ op[p].kind = "category_locale_delete" /\ op[p].pc = "exists"
  /\ LET found == op[p].id \in categories
         ctx == Logged(p, Call("cat_exists", RowKey(op[p].id), found))
     IN op' = [op EXCEPT ![p] =
          IF ~found THEN Finished(ctx, Result("DB_NO_RECORD", "category"))
          ELSE [ctx EXCEPT !.pc = "count"]]
  /\ UNCHANGED <<records, storage, nextId, failedDeletes>>
  /\ UNCHANGED category

\* `if iCount < 2`
BelowMinimum(iCount) == iCount < 2

\* CategoryLocale.count of the locales of the category, and the minimum
CategoryLocaleDeleteCount(p) ==
  /\ op[p].kind = "category_locale_delete" /\ op[p].pc = "count"
  /\ LET iCount == LocaleCount(locales, op[p].id)
         ctx == Logged(p, Call("loc_count", RowKey(op[p].id), TRUE))
     IN op' = [op EXCEPT ![p] =
          IF BelowMinimum(iCount) THEN Finished(ctx, Result("MINIMUM_LOCALE", ""))
          ELSE [ctx EXCEPT !.pc = "filter"]]
  /\ UNCHANGED <<records, storage, nextId, failedDeletes>>
  /\ UNCHANGED category

\* CategoryLocale.filter of the locale of the category
CategoryLocaleDeleteFilter(p) ==
  /\ op[p].kind = "category_locale_delete" /\ op[p].pc = "filter"
  /\ LET found == LocaleFilter(locales, op[p].id, op[p].locale) # {}
         ctx == Logged(p, Call("loc_filter", LocaleKey(op[p].id, op[p].locale), found))
     IN op' = [op EXCEPT ![p] =
          IF ~found THEN Finished(ctx, Result("DB_NO_RECORD", ""))
          ELSE [ctx EXCEPT !.pc = "record_delete"]]
  /\ UNCHANGED <<records, storage, nextId, failedDeletes>>
  /\ UNCHANGED category

\* oLocale.delete()
CategoryLocaleDeleteRecord(p, F) ==
  /\ op[p].kind = "category_locale_delete" /\ op[p].pc = "record_delete"
  /\ LET rows == LocaleFilter(locales, op[p].id, op[p].locale)
     IN \E ok \in Outcomes(F, "loc_delete") :
          LET deleted == ok /\ rows # {}
          IN /\ locales' = IF deleted THEN locales \ rows ELSE locales
             /\ op' = [op EXCEPT ![p] =
                  Finished(Logged(p, Call("loc_delete",
                                          LocaleKey(op[p].id, op[p].locale), deleted)),
                           IF deleted THEN Result("OK", TRUE)
                                      ELSE Result("DB_DELETE_FAILED", ""))]
  /\ UNCHANGED <<records, storage, nextId, failedDeletes, categories, nextCategory,
                 flawedCreates>>

\* admin_category_locale_update: access check and the check of the fields
CategoryLocaleUpdate(p, r, seq) ==
  /\ CanStart(p, seq)
  /\ LET ctx == CategoryStarted(p, "category_locale_update", r.id, r.locale)
     IN op' = [op EXCEPT ![p] =
          IF r.defect = "denied" THEN Finished(ctx, Result("RIGHTS", "blog_category"))
          ELSE IF r.defect = "missing" THEN Finished(ctx, Result("DATA_FIELDS", "missing"))
          ELSE [ctx EXCEPT !.pc = "exists", !.id = r.id,
                           !.todo = <<<<r.locale, r.slug>>>>,
                           !.rejected = IF r.defect = "schema" THEN 1 ELSE 0]]
  /\ UNCHANGED <<records, storage, nextId, failedDeletes>>
  /\ UNCHANGED category

\* Category.exists(_id)
CategoryLocaleUpdateExists(p) ==
  /\ op[p].kind = "category_locale_update" /\ op[p].pc = "exists"
  /\ LET found == op[p].id \in categories
         ctx == Logged(p, Call("cat_exists", RowKey(op[p].id), found))
     IN op' = [op EXCEPT ![p] =
          IF ~found THEN Finished(ctx, Result("DB_NO_RECORD", "category"))
          ELSE [ctx EXCEPT !.pc = "filter"]]
  /\ UNCHANGED <<records, storage, nextId, failedDeletes>>
  /\ UNCHANGED category

\* CategoryLocale.filter of the locale of the category, then the fields of
\* the request set on the record that was found
CategoryLocaleUpdateFilter(p) ==
  /\ op[p].kind = "category_locale_update" /\ op[p].pc = "filter"
  /\ LET rows == LocaleFilter(locales, op[p].id, op[p].locale)
         ctx == Logged(p, Call("loc_filter", LocaleKey(op[p].id, op[p].locale), rows # {}))
     IN op' = [op EXCEPT ![p] =
          IF rows = {} THEN Finished(ctx, Result("DB_NO_RECORD", ""))
          ELSE IF op[p].rejected = 1 THEN Finished(ctx, Result("DATA_FIELDS", "schema"))
          ELSE [ctx EXCEPT !.pc = "save",
                           !.saved = <<<<op[p].locale, (CHOOSE row \in rows : TRUE).slug>>>>]]
  /\ UNCHANGED <<records, storage, nextId, failedDeletes>>
  /\ UNCHANGED category

\* oLocale.save(): False when no field of the record was changed or no row
\* was updated, a DuplicateException the handler does not catch when
\* another row has the slug
CategoryLocaleUpdateSave(p, F) ==
  /\ op[p].kind = "category_locale_update" /\ op[p].pc = "save"
  /\ LET c == op[p].id
         l == op[p].locale
         slug == Head(op[p].todo)[2]
         rows == LocaleFilter(locales, c, l)
         changed == slug # Head(op[p].saved)[2]
         taken == \E row \in locales \ rows : row.slug = slug
     IN \E ok \in Outcomes(F, "loc_save") :
          LET saved == ok /\ changed /\ ~taken /\ rows # {}
              ctx == Logged(p, Call("loc_save", LocaleKey(c, l), saved))
          IN /\ locales' = IF saved THEN (locales \ rows) \cup {LocaleRow(c, l, slug)}
                                    ELSE locales
             /\ op' = [op EXCEPT ![p] =
                  IF saved THEN Finished(ctx, Result("OK", TRUE))
                  ELSE IF changed /\ taken /\ ok
                    THEN Finished(ctx, Result("EXCEPTION", "DuplicateException"))
                  ELSE Finished(ctx, Result("DB_UPDATE_FAILED", ""))]
  /\ UNCHANGED <<records, storage, nextId, failedDeletes, categories, nextCategory,
                 flawedCreates>>

\* admin_category_update: access check and the check of the fields
CategoryUpdate(p, r, seq) ==
  /\ CanStart(p, seq)
  /\ LET ctx == CategoryStarted(p, "category_update", r.id, "")
     IN op' = [op EXCEPT ![p] =
          IF r.defect = "denied" THEN Finished(ctx, Result("RIGHTS", "blog_category"))
          ELSE IF r.defect = "missing" THEN Finished(ctx, Result("DATA_FIELDS", "missing"))
          ELSE [ctx EXCEPT !.pc = "exists", !.id = r.id, !.todo = r.locales,
                           !.rejected = r.rejected, !.retry = r.pairs]]
  /\ UNCHANGED <<records, storage, nextId, failedDeletes>>
  /\ UNCHANGED category

\* Category.exists(_id)
CategoryUpdateExists(p) ==
  /\ op[p].kind = "category_update" /\ op[p].pc = "exists"
  /\ LET found == op[p].id \in categories
         ctx == Logged(p, Call("cat_exists", RowKey(op[p].id), found))
     IN op' = [op EXCEPT ![p] =
          IF ~found THEN Finished(ctx, Result("DB_NO_RECORD", "category"))
          ELSE [ctx EXCEPT !.pc = "filter"]]
  /\ UNCHANGED <<records, storage, nextId, failedDeletes>>
  /\ UNCHANGED category

\* the locales of the rows, as a list: the keys of dLocales, of which only
\* the membership is read
LocalesOf(rows) ==
  LET held == {row.locale : row \in rows}
  IN CHOOSE l \in [1..Cardinality(held) -> held] :
       \A i, j \in 1..Cardinality(held) : l[i] = l[j] => i = j

\* the way `for sLocale, dLocale in dRecord['locales']` takes an item that
\* no create() is reached for: the item of a dict is its key, a string of
\* two letters that is unpacked and then indexed as the record (TypeError);
\* the record of a locale the category has is iterated by `for f,v in` over
\* its keys (ValueError); NoResult when create() is reached
UpdateItemException(pairs, sLocale, dLocales) ==
  IF ~pairs THEN Result("EXCEPTION", "TypeError")
  ELSE IF \E i \in 1..Len(dLocales) : dLocales[i] = sLocale
    THEN Result("EXCEPTION", "ValueError")
  ELSE NoResult

\* the response after the loop: the errors of the locales, or bRes
CategoryUpdateResponse(ctx) ==
  IF ctx.lErrors # <<>> THEN Result("DATA_FIELDS", "schema") ELSE Result("OK", ctx.bRes)

\* CategoryLocale.filter({'_category': sID}) into dLocales, and the items
\* of record.locales up to the first create()
CategoryUpdateFilter(p) ==
  /\ op[p].kind = "category_update" /\ op[p].pc = "filter"
  /\ LET rows == {row \in locales : row.category = op[p].id}
         ctx == [Logged(p, Call("loc_filter", RowKey(op[p].id), rows # {}))
                   EXCEPT !.saved = LocalesOf(rows)]
     IN op' = [op EXCEPT ![p] =
          IF op[p].todo = <<>> THEN Finished(ctx, CategoryUpdateResponse(ctx))
          ELSE [ctx EXCEPT !.pc = "locales"]]
  /\ UNCHANGED <<records, storage, nextId, failedDeletes>>
  /\ UNCHANGED category

\* one turn of the loop over record.locales: the exception of the item; or
\* the errors of a locale the schema rejects; or oLocale.create(), after a
\* DuplicateException of which the handler returns None
CategoryUpdateLocale(p, F) ==
  /\ op[p].kind = "category_update" /\ op[p].pc = "locales"
  /\ LET o == Head(op[p].todo)
         c == op[p].id
         exc == UpdateItemException(op[p].retry, o[1], op[p].saved)
         last == Tail(op[p].todo) = <<>>
         turned == [op[p] EXCEPT !.todo = Tail(@),
                                 !.rejected = IF @ > 0 THEN @ - 1 ELSE 0]
     IN IF exc.code # "none"
          THEN /\ op' = [op EXCEPT ![p] = Finished(op[p], exc)]
               /\ UNCHANGED locales
        ELSE IF op[p].rejected = 1
          THEN /\ LET ctx == [turned EXCEPT !.lErrors = Append(@, o[1])]
                  IN op' = [op EXCEPT ![p] =
                       IF last THEN Finished(ctx, CategoryUpdateResponse(ctx)) ELSE ctx]
               /\ UNCHANGED locales
        ELSE \E out \in LocaleCreateOutcomes(locales, c, o[1], o[2], F) :
               LET ok == out = "created"
                   ctx == [turned EXCEPT
                             !.log = Append(@, Call("loc_create", LocaleKey(c, o[1]), ok)),
                             !.bRes = @ \/ ok]
               IN /\ locales' = IF ok THEN locales \cup {LocaleRow(c, o[1], o[2])}
                                      ELSE locales
                  /\ op' = [op EXCEPT ![p] =
                       IF out \in {"slug", "_locale", "unknown"} THEN Finished(ctx, Result("None", ""))
                       ELSE IF last THEN Finished(ctx, CategoryUpdateResponse(ctx))
                       ELSE ctx]
  /\ UNCHANGED <<records, storage, nextId, failedDeletes, categories, nextCategory,
                 flawedCreates>>

\* the steps of admin_category_create, admin_category_locale_create and
\* admin_category_locale_delete in context p
MinimumStep(p, F) ==
  \/ CategoryCreateValidate(p)
  \/ CategoryCreatePersist(p, F)
  \/ CategoryCreateLocale(p, F)
  \/ CategoryCreateRollbackCategory(p, F)
  \/ CategoryCreateRollbackLocale(p, F)
  \/ CategoryLocaleCreateExists(p)
  \/ CategoryLocaleCreatePersist(p, F)
  \/ CategoryLocaleDeleteExists(p)
  \/ CategoryLocaleDeleteCount(p)
  \/ CategoryLocaleDeleteFilter(p)
  \/ CategoryLocaleDeleteRecord(p, F)
  \/ Return(p)

\* one of these three requests arrives in context p
MinimumRequest(p, seq) ==
  \/ \E r \in CategoryCreateRequests : CategoryCreate(p, r, seq)
  \/ \E r \in CategoryLocaleCreateRequests : CategoryLocaleCreate(p, r, seq)
  \/ \E r \in CategoryLocaleDeleteRequests : CategoryLocaleDelete(p, r, seq)

\* category create, locale create and locale delete requests served one at
\* a time, every write to the database being allowed to fail
MinimumNext == MinimumRequest(MainProc, TRUE) \/ MinimumStep(MainProc, CategoryFaults)

MinimumSpec == Init /\ [][MinimumNext]_vars

\* the steps of the category request in context p
CategoryStep(p, F) ==
  \/ MinimumStep(p, F)
  \/ CategoryDeleteGet(p)
  \/ CategoryDeletePosts(p)
  \/ CategoryDeleteFilter(p)
  \/ CategoryDeleteLocale(p, F)
  \/ CategoryDeleteRecord(p, F)
  \/ CategoryLocaleUpdateExists(p)
  \/ CategoryLocaleUpdateFilter(p)
  \/ CategoryLocaleUpdateSave(p, F)
  \/ CategoryUpdateExists(p)
  \/ CategoryUpdateFilter(p)
  \/ CategoryUpdateLocale(p, F)

\* a category request arrives in context p
CategoryRequest(p, seq) ==
  \/ MinimumRequest(p, seq)
  \/ \E r \in CategoryDeleteRequests : CategoryDelete(p, r, seq)
  \/ \E r \in CategoryLocaleUpdateRequests : CategoryLocaleUpdate(p, r, seq)
  \/ \E r \in CategoryUpdateRequests : CategoryUpdate(p, r, seq)

\* category requests served one at a time, every write to the database
\* being allowed to fail
CategoryNext == CategoryRequest(MainProc, TRUE) \/ CategoryStep(MainProc, CategoryFaults)

CategorySpec == Init /\ [][CategoryNext]_vars

\* the category create requests of the runs with two contexts: sound
\* requests with two locales
RaceCategoryRequests ==
  {r \in CategoryCreateRequests : r.defect = "none" /\ Len(r.locales) = 2}

\* the locale delete requests of the runs with two contexts: sound requests
RaceLocaleDeleteRequests == {r \in CategoryLocaleDeleteRequests : r.defect = "none"}

\* no category create is being served
CategoryCreateServed ==
  \A q \in Proc : op[q].kind = "category_create" => op[q].pc \in {"idle", "done"}

\* locale delete requests served in both contexts with no mutual exclusion,
\* once the create request of the one category has been served on its own;
\* no call to the database fails
LocaleRaceNext ==
  \/ /\ nextCategory = 1
     /\ \E r \in RaceCategoryRequests : CategoryCreate(MainProc, r, TRUE)
  \/ CategoryCreateValidate(MainProc)
  \/ CategoryCreatePersist(MainProc, {})
  \/ CategoryCreateLocale(MainProc, {})
  \/ CategoryCreateRollbackCategory(MainProc, {})
  \/ CategoryCreateRollbackLocale(MainProc, {})
  \/ \E p \in Proc :
       \/ /\ CategoryCreateServed
          /\ \E r \in RaceLocaleDeleteRequests : CategoryLocaleDelete(p, r, FALSE)
       \/ CategoryLocaleDeleteExists(p)
       \/ CategoryLocaleDeleteCount(p)
       \/ CategoryLocaleDeleteFilter(p)
       \/ CategoryLocaleDeleteRecord(p, {})
       \/ Return(p)

LocaleRaceSpec == Init /\ [][LocaleRaceNext]_vars

(***************************************************************************)
(* Specifications                                                          *)
(***************************************************************************)
\* the steps of the request in context p
Step(p, F) ==
  \/ MediaCreatePersist(p, F)
  \/ MediaCreateSave(p, F)
  \/ MediaCreateRollbackRecord(p, F)
  \/ MediaCreateRollbackStorage(p, F)
  \/ MediaDeleteGet(p)
  \/ MediaDeleteStorage(p, F)
  \/ MediaDeleteRecord(p, F)
  \/ MediaThumbnailCreateGet(p)
  \/ MediaThumbnailCreateOpen(p, F)
  \/ MediaThumbnailCreateSave(p, F)
  \/ MediaThumbnailCreatePersist(p, F)
  \/ MediaThumbnailDeleteGet(p)
  \/ MediaThumbnailDeleteStorage(p, F)
  \/ MediaThumbnailDeletePersist(p, F)
  \/ MediaUrlReadGet(p)
  \/ MediaFilterSearch(p)
  \/ MediaReadGet(p)
  \/ MediaReadOpen(p, F)
  \/ Return(p)

\* a request arrives in context p
Request(p, seq) ==
  \/ \E r \in CreateRequests : MediaCreate(p, r, seq)
  \/ \E r \in DeleteRequests : MediaDelete(p, r, seq)
  \/ \E r \in ThumbnailCreateRequests : MediaThumbnailCreate(p, r, seq)
  \/ \E r \in ThumbnailDeleteRequests : MediaThumbnailDelete(p, r, seq)
  \/ \E r \in UrlRequests : MediaUrlRead(p, r, seq)
  \/ \E r \in FilterRequests : MediaFilterRead(p, r, seq)
  \/ \E r \in ReadRequests : MediaRead(p, r, seq)

\* requests served one at a time, every call to the database and to the
\* storage backend being allowed to fail
Next == Request(MainProc, TRUE) \/ Step(MainProc, AllFaults)

Spec == Init /\ [][Next]_vars

\* the calls of addThumbnail that may fail
ThumbnailFaults == {"save", "open", "resize", "db_save"}

\* the create requests of the runs with two contexts: sound requests that
\* name no thumbnails
RaceCreateRequests == {r \in CreateRequests : r.defect = "none" /\ ~r.hasThumbs}

\* the addThumbnail requests of the runs with two contexts: sound requests
\* for a size of the variant grammar
RaceThumbnailRequests ==
  {r \in ThumbnailCreateRequests : r.defect = "none" /\ GrammarMatch(r.size)}

\* addThumbnail requests served in both contexts with no mutual exclusion,
\* on the one record that a create request served on its own has left
RaceNext ==
  \/ /\ nextId = 1
     /\ \E r \in RaceCreateRequests : MediaCreate(MainProc, r, TRUE)
  \/ MediaCreatePersist(MainProc, {})
  \/ MediaCreateSave(MainProc, {})
  \/ \E p \in Proc :
       \/ \E r \in RaceThumbnailRequests : MediaThumbnailCreate(p, r, FALSE)
       \/ MediaThumbnailCreateGet(p)
       \/ MediaThumbnailCreateOpen(p, ThumbnailFaults)
       \/ MediaThumbnailCreateSave(p, ThumbnailFaults)
       \/ MediaThumbnailCreatePersist(p, ThumbnailFaults)
       \/ Return(p)

RaceSpec == Init /\ [][RaceNext]_vars

\* the delete requests of the runs with two contexts: sound requests
RaceDeleteRequests == {r \in DeleteRequests : r.defect = "none"}

\* no create is being served
CreateServed == \A q \in Proc : op[q].kind = "create" => op[q].pc \in {"idle", "done"}

\* addThumbnail and delete requests served in both contexts with no mutual
\* exclusion, once the create request of the one record has been served
\* on its own; the save of the record by addThumbnail may fail
DeleteRaceNext ==
  \/ /\ nextId = 1
     /\ \E r \in RaceCreateRequests : MediaCreate(MainProc, r, TRUE)
  \/ MediaCreatePersist(MainProc, {})
  \/ MediaCreateSave(MainProc, {})
  \/ \E p \in Proc :
       \/ /\ CreateServed
          /\ \E r \in RaceThumbnailRequests : MediaThumbnailCreate(p, r, FALSE)
       \/ MediaThumbnailCreateGet(p)
       \/ MediaThumbnailCreateOpen(p, {})
       \/ MediaThumbnailCreateSave(p, {})
       \/ MediaThumbnailCreatePersist(p, {"db_save"})
       \/ /\ CreateServed
          /\ \E r \in RaceDeleteRequests : MediaDelete(p, r, FALSE)
       \/ MediaDeleteGet(p)
       \/ MediaDeleteStorage(p, {})
       \/ MediaDeleteRecord(p, {})
       \/ Return(p)

DeleteRaceSpec == Init /\ [][DeleteRaceNext]_vars

\* create, addThumbnail, removeThumbnail and delete requests served one at
\* a time, no call to the database or to the storage backend failing
FaultlessNext ==
  \/ /\ ~Busy
     /\ \E r \in CreateRequests : MediaCreate(MainProc, r, TRUE)
  \/ /\ ~Busy
     /\ \E r \in DeleteRequests : MediaDelete(MainProc, r, TRUE)
  \/ /\ ~Busy
     /\ \E r \in ThumbnailCreateRequests : MediaThumbnailCreate(MainProc, r, TRUE)
  \/ /\ ~Busy
     /\ \E r \in ThumbnailDeleteRequests : MediaThumbnailDelete(MainProc, r, TRUE)
  \/ MediaCreatePersist(MainProc, {})
  \/ MediaCreateSave(MainProc, {})
  \/ MediaDeleteGet(MainProc)
  \/ MediaDeleteStorage(MainProc, {})
  \/ MediaDeleteRecord(MainProc, {})
  \/ MediaThumbnailCreateGet(MainProc)
  \/ MediaThumbnailCreateOpen(MainProc, {})
  \/ MediaThumbnailCreateSave(MainProc, {})
  \/ MediaThumbnailCreatePersist(MainProc, {})
  \/ MediaThumbnailDeleteGet(MainProc)
  \/ MediaThumbnailDeleteStorage(MainProc, {})
  \/ MediaThumbnailDeletePersist(MainProc, {})
  \/ Return(MainProc)

FaultlessSpec == Init /\ [][FaultlessNext]_vars

\* the longest size string of the requests that probe the size check
MaxSizeLen == 5

\* the characters of the size strings: the two modes, the separator, a zero
\* and a non-zero digit, and a character that is none of these
\* the empty string is left out: whether evaluate counts it as a missing
\* field is decided outside this code
SizeStrings ==
  UNION {[1..n -> {"c", "f", "x", "0", "1", "z"}] : n \in 1..MaxSizeLen}

\* sound addThumbnail and removeThumbnail requests with any size string
SizeRequests ==
  [defect : {"none"}, filename : {<<>>}, hasThumbs : {FALSE}, thumbs : {<<>>},
   id : Ids, hasSize : {TRUE}, size : SizeStrings]

\* addThumbnail and removeThumbnail requests, one at a time, with any size
\* string
SizeNext ==
  \/ /\ ~Busy
     /\ \E r \in SizeRequests : MediaThumbnailCreate(MainProc, r, TRUE)
  \/ /\ ~Busy
     /\ \E r \in SizeRequests : MediaThumbnailDelete(MainProc, r, TRUE)
  \/ MediaThumbnailCreateGet(MainProc)
  \/ MediaThumbnailDeleteGet(MainProc)
  \/ Return(MainProc)

SizeSpec == Init /\ [][SizeNext]_vars

\* the longest stem of the filenames that probe the derived key
MaxNameLen == 2

SizeC1x10 == <<"c", "1", "x", "1", "0">>

\* the filenames: a stem, then an image extension, another one, or none
KeyFilenames ==
  {stem \o ext : stem \in UNION {[1..n -> {"a", ".", "/", "_"}] : n \in 0..MaxNameLen},
                 ext \in {<<>>, <<".", "p", "n", "g">>, <<".", "t">>}} \ {<<>>}

\* the thumbnails the record lists
KeyThumbLists == {<<>>, <<SizeC1x1, SizeF2x1>>, <<SizeC1x1, SizeC1x10>>}

KeyRequests ==
  {r \in [defect : {"none"}, filename : {<<>>}, hasThumbs : {FALSE}, thumbs : {<<>>},
          id : {1}, hasSize : BOOLEAN,
          size : {SizeC1x1, SizeF2x1, SizeC1x10, <<>>}] :
     r.hasSize <=> r.size # <<>>}

\* a record with any of the filenames has been created, with its files
KeyInit ==
  /\ \E f \in KeyFilenames :
       \E l \in (IF IsImageName(f) THEN KeyThumbLists ELSE {<<>>}) :
         /\ records = [i \in Ids |-> IF i = 1 THEN NewRecord(f, IsImageName(f), l)
                                              ELSE NoRecord]
         /\ storage = {Filename(1, f, s) : s \in {SOURCE} \cup {l[i] : i \in 1..Len(l)}}
  /\ nextId = 2
  /\ op = [p \in Proc |-> Idle]
  /\ failedDeletes = {}
  /\ categories = {}
  /\ locales = {}
  /\ nextCategory = 1
  /\ flawedCreates = {}

\* resolveUrl requests on that record, one at a time
KeyNext ==
  \/ /\ ~Busy
     /\ \E r \in KeyRequests : MediaUrlRead(MainProc, r, TRUE)
  \/ MediaUrlReadGet(MainProc)
  \/ Return(MainProc)

KeySpec == KeyInit /\ [][KeyNext]_vars

(***************************************************************************)
(* Properties                                                              *)
(***************************************************************************)
\* no request is being served
Quiet == \A p \in Proc : op[p].pc \in {"idle", "done"}

Finishes(p, kind) == op[p].kind = kind /\ op[p].pc = "done"

Range(l) == {l[i] : i \in 1..Len(l)}

\* the calls `call` in the log of a context
CallsOf(ctx, call) == {i \in 1..Len(ctx.log) : ctx.log[i].call = call}

\* before position n, the context made the call on the key, and it succeeded
Succeeded(ctx, call, key, n) ==
  \E j \in 1..(n - 1) :
    ctx.log[j].call = call /\ ctx.log[j].key = key /\ ctx.log[j].ok

\* the context made a call `call` that failed
Failed(ctx, call) == \E i \in CallsOf(ctx, call) : ~ctx.log[i].ok

\* the key of a file of the record the context works on
CtxKey(ctx, size) == Filename(ctx.id, ctx.rec.filename, size)

\* the thumbnails a record lists all have an object in the storage
ThumbnailsStored(id) ==
  \A s \in Range(records[id].thumbnails) :
    Filename(id, records[id].filename, s) \in storage

\* C1: whenever no request is being served, every thumbnail that a record
\* lists has an object in the storage under the derived key, whichever
\* calls to the storage and to the database have failed before.
C1_ListedThumbnailsAreStored ==
  Quiet => \A id \in Ids : records[id].exists => ThumbnailsStored(id)

\* neither the record of the create nor a file it saved is left
NothingLeft(ctx) ==
  /\ ~records[ctx.id].exists
  /\ \A s \in Range(ctx.saved) : CtxKey(ctx, s) \notin storage

\* C2: when create returns the storage error, the record it created is gone
\* and so is every object it had saved.
C2_RollbackLeavesNothing ==
  \A p \in Proc :
    Finishes(p, "create") /\ op[p].result.code = "STORAGE_ISSUE" => NothingLeft(op[p])

\* a delete that found its record and had a storage deletion fail: it ends
\* with the storage error, the failed deletion is its last call, and the
\* record is still there
DeleteStopsAtFailure(ctx) ==
  Failed(ctx, "delete") =>
    /\ ctx.result.code = "STORAGE_ISSUE"
    /\ ~ctx.log[Len(ctx.log)].ok /\ ctx.log[Len(ctx.log)].call = "delete"
    /\ CallsOf(ctx, "db_delete") = {}
    /\ records[ctx.id] = ctx.pre.records[ctx.id]
    /\ records[ctx.id].exists

\* C3 as stated: a failed storage deletion ends delete with the storage
\* error, no further deletion and the record kept; a later delete of the
\* same id whose storage deletions all succeed deletes the record and
\* returns success.
C3_DeleteRetrySucceeds ==
  \A p \in Proc :
    Finishes(p, "delete") /\ op[p].rec.exists =>
      /\ DeleteStopsAtFailure(op[p])
      /\ op[p].retry /\ ~Failed(op[p], "delete") =>
           /\ op[p].result.code = "OK" /\ op[p].result.data
           /\ ~records[op[p].id].exists

\* C3 as amended: a failed storage deletion ends delete with the storage
\* error, no further deletion and the record kept; a later delete of the
\* same id whose storage deletions all succeed goes on to delete the record
\* and returns the result of that deletion: true with the record deleted,
\* or false with the record kept.
C3_DeleteRetryReturnsRecordDeletion ==
  \A p \in Proc :
    Finishes(p, "delete") /\ op[p].rec.exists =>
      /\ DeleteStopsAtFailure(op[p])
      /\ op[p].retry /\ ~Failed(op[p], "delete") =>
           /\ op[p].result.code = "OK"
           /\ CallsOf(op[p], "db_delete") # {}
           /\ op[p].result.data <=> ~records[op[p].id].exists
           /\ ~op[p].result.data => records[op[p].id] = op[p].pre.records[op[p].id]

\* a delete has failed on the storage, and a later delete of the same id
\* has deleted every object and the record
C3_Witness ==
  \E p \in Proc :
    /\ Finishes(p, "delete") /\ op[p].retry /\ ~Failed(op[p], "delete")
    /\ Len(op[p].rec.thumbnails) > 0
    /\ op[p].result.code = "OK" /\ op[p].result.data
    /\ ~records[op[p].id].exists

\* the responses create can end with before it has saved anything
CreateErrorsBeforeStorage ==
  {"DATA_FIELDS", "EXCEPTION", "DB_DUPLICATE", "DB_CREATE_FAILED"}

\* C4: create saves to the storage only after its record has been created;
\* when it ends with a decode, validation, duplicate or database error it
\* has made no call to the storage, and the storage is as it was.
C4_CreateSavesAfterPersist ==
  \A p \in Proc :
    op[p].kind = "create" =>
      /\ \A i \in CallsOf(op[p], "save") :
           Succeeded(op[p], "db_create", RowKey(op[p].id), i)
      /\ op[p].pc = "done" /\ op[p].result.code \in CreateErrorsBeforeStorage =>
           /\ CallsOf(op[p], "save") = {}
           /\ storage = op[p].pre.storage

\* a create is saving its files, the record being there
C4_Witness ==
  \E p \in Proc :
    /\ op[p].kind = "create" /\ op[p].pc = "save"
    /\ CallsOf(op[p], "save") # {}
    /\ records[op[p].id].exists

\* C5: addThumbnail saves the record, with the size appended to the list,
\* only after the save of the thumbnail has succeeded; when the open or the
\* save fails it returns the storage error and the records are as they were.
C5_ThumbnailListedAfterSave ==
  \A p \in Proc :
    op[p].kind = "thumbnail_create" =>
      /\ \A i \in CallsOf(op[p], "db_save") :
           Succeeded(op[p], "save", CtxKey(op[p], op[p].req.size), i)
      /\ records # op[p].pre.records =>
           /\ Succeeded(op[p], "save", CtxKey(op[p], op[p].req.size), Len(op[p].log))
           /\ records = [op[p].pre.records EXCEPT
                           ![op[p].id].thumbnails = Append(@, op[p].req.size)]
      /\ op[p].pc = "done" /\ (Failed(op[p], "open") \/ Failed(op[p], "save")) =>
           /\ op[p].result.code = "STORAGE_ISSUE"
           /\ records = op[p].pre.records

\* an addThumbnail has saved the thumbnail and then the record
C5_Witness ==
  \E p \in Proc :
    /\ Finishes(p, "thumbnail_create") /\ op[p].result.code = "OK"
    /\ CallsOf(op[p], "db_save") # {}
    /\ records # op[p].pre.records

\* C6: when the storage deletion of removeThumbnail fails, it returns the
\* storage error and the record still lists the size; the size leaves the
\* list only after the storage deletion has succeeded.
C6_ThumbnailUnlistedAfterDelete ==
  \A p \in Proc :
    op[p].kind = "thumbnail_delete" =>
      /\ op[p].pc = "done" /\ Failed(op[p], "delete") =>
           /\ op[p].result.code = "STORAGE_ISSUE"
           /\ records = op[p].pre.records
           /\ Listed(records[op[p].id].thumbnails, op[p].req.size)
      /\ \A i \in CallsOf(op[p], "db_save") :
           Succeeded(op[p], "delete", CtxKey(op[p], op[p].req.size), i)
      /\ records # op[p].pre.records =>
           Succeeded(op[p], "delete", CtxKey(op[p], op[p].req.size), Len(op[p].log))

\* a removeThumbnail of a listed size has had its storage deletion fail
C6_Witness ==
  \E p \in Proc :
    /\ Finishes(p, "thumbnail_delete") /\ Failed(op[p], "delete")
    /\ Listed(records[op[p].id].thumbnails, op[p].req.size)

\* C7: delete deletes the record only after a storage deletion has
\* succeeded for the source key and for the key of every thumbnail the
\* record it fetched lists.
C7_RecordDeletedAfterObjects ==
  \A p \in Proc :
    op[p].kind = "delete" =>
      /\ \A i \in CallsOf(op[p], "db_delete") :
           \A s \in {SOURCE} \cup Range(op[p].rec.thumbnails) :
             Succeeded(op[p], "delete", CtxKey(op[p], s), i)
      /\ records # op[p].pre.records => CallsOf(op[p], "db_delete") # {}

\* a delete has deleted a record that listed thumbnails
C7_Witness ==
  \E p \in Proc :
    /\ Finishes(p, "delete") /\ CallsOf(op[p], "db_delete") # {}
    /\ Len(op[p].rec.thumbnails) = 2
    /\ ~records[op[p].id].exists

\* C8: right after a successful addThumbnail(id, s) with a valid size s,
\* resolveUrl(id, s) answers the url of the derived key of s, and the
\* storage holds an object under that key.
C8_AddedThumbnailResolves ==
  \A p \in Proc :
    Finishes(p, "thumbnail_create") /\ op[p].result.code = "OK"
      /\ GrammarMatch(op[p].req.size)
    => LET key == Filename(op[p].id, records[op[p].id].filename, op[p].req.size)
           url == UrlResponse(MediaGet(records, op[p].id), op[p].id, TRUE, op[p].req.size)
       IN /\ url.code = "OK"
          /\ url.data = StorageUrl(key)
          /\ op[p].result.data = url.data
          /\ key \in storage

\* an addThumbnail of a valid size has succeeded
C8_Witness ==
  \E p \in Proc :
    /\ Finishes(p, "thumbnail_create") /\ op[p].result.code = "OK"
    /\ GrammarMatch(op[p].req.size)

\* the keys of the storage that belong to the record with this id
KeysOf(id) == {k \in storage : k[1] = id}

\* C9: when create of an image with a list of valid thumbnails succeeds, the
\* storage holds for this record exactly the source and one object per
\* requested size, the record lists the requested sizes, and the urls of
\* the response are those of 'source' and of each requested size.
C9_CreateStoresSourceAndThumbnails ==
  \A p \in Proc :
    Finishes(p, "create") /\ op[p].result.code = "OK" /\ op[p].rec.image =>
      LET id == op[p].id
          names == {SOURCE} \cup Range(op[p].req.thumbs)
          urls == op[p].result.data.urls
      IN /\ KeysOf(id) = {Filename(id, op[p].req.filename, s) : s \in names}
         /\ Cardinality(KeysOf(id)) = 1 + Cardinality(Range(op[p].req.thumbs))
         /\ records[id].exists /\ records[id].image
         /\ records[id].thumbnails = op[p].req.thumbs
         /\ DOMAIN urls = names
         /\ \A s \in names : urls[s] = StorageUrl(Filename(id, op[p].req.filename, s))

\* a create of an image with one thumbnail has succeeded: two objects and
\* two urls
C9_Witness ==
  \E p \in Proc :
    /\ Finishes(p, "create") /\ op[p].result.code = "OK" /\ op[p].rec.image
    /\ Len(op[p].req.thumbs) = 1
    /\ Cardinality(KeysOf(op[p].id)) = 2
    /\ Cardinality(DOMAIN op[p].result.data.urls) = 2

\* what the response of a create says of a bad image: a thumbnail that is
\* no size, content that cannot be inspected, content that cannot be resized
BadImageInput == {"thumbnails", "base64 info", "resize"}

\* C10: when a requested thumbnail is no size, or the image cannot be
\* inspected, or a thumbnail cannot be rendered, create returns the
\* validation error and leaves the records and the storage as they were, so
\* that the same call meets the same state again.
C10_BadImageIsValidationError ==
  \A p \in Proc :
    Finishes(p, "create") /\ op[p].result.code \in {"DATA_FIELDS", "EXCEPTION"}
      /\ op[p].result.data \in BadImageInput
    => /\ op[p].result.code = "DATA_FIELDS"
       /\ records = op[p].pre.records
       /\ storage = op[p].pre.storage

\* the request was turned away by the access check or for a missing field
Refused(ctx) ==
  /\ ctx.pc = "done"
  /\ \/ ctx.result.code = "RIGHTS"
     \/ ctx.result.code = "DATA_FIELDS" /\ ctx.result.data = "missing"

\* the calls of the context to the storage backend
StorageCalls(ctx) ==
  CallsOf(ctx, "save") \cup CallsOf(ctx, "open") \cup CallsOf(ctx, "delete")

\* the writes of the context to the database
RecordWrites(ctx) ==
  CallsOf(ctx, "db_create") \cup CallsOf(ctx, "db_save") \cup CallsOf(ctx, "db_delete")

\* the record the request names, as it was when the request arrived
Named(ctx) == ctx.pre.records[ctx.req.id]

\* C11: addThumbnail(id, s) on an image whose list already holds s answers
\* the duplicate error, makes no call to the storage, writes no record and
\* leaves the records and the storage as they were.
C11_DuplicateThumbnailIsConflict ==
  \A p \in Proc :
    op[p].kind = "thumbnail_create" /\ ~Refused(op[p])
      /\ Named(op[p]).exists /\ Named(op[p]).image
      /\ op[p].req.size \in Range(Named(op[p]).thumbnails)
    => /\ op[p].pc \in {"get", "done"}
       /\ op[p].pc = "done" => op[p].result = Result("DB_DUPLICATE", "media_thumbnail")
       /\ StorageCalls(op[p]) = {} /\ RecordWrites(op[p]) = {}
       /\ records = op[p].pre.records /\ storage = op[p].pre.storage

\* an addThumbnail of a size the record lists has been answered
C11_Witness ==
  \E p \in Proc :
    /\ Finishes(p, "thumbnail_create")
    /\ op[p].result.code = "DB_DUPLICATE"
    /\ op[p].req.size \in Range(records[op[p].req.id].thumbnails)
    /\ op[p].log # <<>>

\* C12: removeThumbnail(id, s) with a valid size s on an image whose list
\* does not hold s answers false, makes no call to the storage, writes no
\* record and leaves the records and the storage as they were.
C12_AbsentThumbnailIsNoOp ==
  \A p \in Proc :
    op[p].kind = "thumbnail_delete" /\ ~Refused(op[p])
      /\ GrammarMatch(op[p].req.size)
      /\ Named(op[p]).exists /\ Named(op[p]).image
      /\ op[p].req.size \notin Range(Named(op[p]).thumbnails)
    => /\ op[p].pc \in {"get", "done"}
       /\ op[p].pc = "done" => op[p].result = Result("OK", FALSE)
       /\ StorageCalls(op[p]) = {} /\ RecordWrites(op[p]) = {}
       /\ records = op[p].pre.records /\ storage = op[p].pre.storage

\* a removeThumbnail of a valid size that an image with another thumbnail
\* does not list has been answered
C12_Witness ==
  \E p \in Proc :
    /\ Finishes(p, "thumbnail_delete")
    /\ op[p].result.code = "OK" /\ op[p].result.data = FALSE
    /\ GrammarMatch(op[p].req.size)
    /\ records[op[p].req.id].thumbnails # <<>>
    /\ op[p].req.size \notin Range(records[op[p].req.id].thumbnails)

\* C14: the storage error create returns after a failed save carries what
\* MediaStorage.last_error() held right after that save, every later call to
\* the storage clearing or overwriting the last error.
C14_CreateErrorIsOfFailedSave ==
  \A p \in Proc :
    Finishes(p, "create") /\ op[p].result.code = "STORAGE_ISSUE" =>
      \A i \in CallsOf(op[p], "save") :
        ~op[p].log[i].ok =>
          op[p].result.data = ErrorAfter("save", op[p].log[i].key, FALSE)

\* C17: resolveUrl answers no-record when the id has no record; with a size,
\* not-an-image when the record has no image section and no-record when the
\* list does not hold the size; otherwise the url of the derived key, whether
\* or not the storage holds the object. It calls the storage for nothing,
\* writes no record, and leaves the records and the storage as they were.
C17_UrlOfDerivedKey ==
  \A p \in Proc :
    Finishes(p, "url_read") /\ ~Refused(op[p]) =>
      LET rec == Named(op[p])
          r == op[p].req
          res == op[p].result
      IN /\ ~rec.exists => res = Result("DB_NO_RECORD", "media")
         /\ rec.exists /\ r.hasSize /\ ~rec.image => res.code = "NOT_AN_IMAGE"
         /\ rec.exists /\ r.hasSize /\ rec.image /\ r.size \notin Range(rec.thumbnails)
              => res = Result("DB_NO_RECORD", "media_thumbnail")
         /\ rec.exists /\ r.hasSize /\ rec.image /\ r.size \in Range(rec.thumbnails)
              => res = Result("OK", StorageUrl(Filename(r.id, rec.filename, r.size)))
         /\ rec.exists /\ ~r.hasSize
              => res = Result("OK", StorageUrl(Filename(r.id, rec.filename, SOURCE)))
         /\ StorageCalls(op[p]) = {} /\ RecordWrites(op[p]) = {}
         /\ records = op[p].pre.records /\ storage = op[p].pre.storage

\* resolveUrl has answered the url of a listed thumbnail whose object the
\* storage does not hold
C17_Witness ==
  \E p \in Proc :
    /\ Finishes(p, "url_read") /\ op[p].result.code = "OK"
    /\ op[p].req.hasSize
    /\ Filename(op[p].req.id, records[op[p].req.id].filename, op[p].req.size)
         \notin storage

\* both contexts hold an answered, successful addThumbnail of the same size
\* on the same record
BothAdded(o) ==
  /\ \A p \in Proc : o[p].kind = "thumbnail_create" /\ o[p].pc = "done"
                       /\ o[p].result.code = "OK"
  /\ \A p, q \in Proc : o[p].id = o[q].id /\ o[p].req.size = o[q].req.size

\* both requests have saved the thumbnail to the storage, and the row holds
\* the list one of them has written
LaterListKept(o, recs) ==
  /\ \A p \in Proc : Succeeded(o[p], "save", CtxKey(o[p], o[p].req.size), Len(o[p].log))
  /\ \E p \in Proc : recs[o[p].id].thumbnails = o[p].rec.thumbnails

\* C13: two addThumbnail(id, s) served with no mutual exclusion can both pass
\* the check of the list and both save the thumbnail; each successful save of
\* the record replaces the list of the row by the list of its caller (the
\* list it read, with s appended), so that after both have returned the row
\* holds the list the later save wrote.
C13_LaterSaveWins ==
  [][/\ \A p \in Proc :
          /\ op[p].kind = "thumbnail_create" /\ op[p].pc = "persist"
          /\ op'[p].pc = "done" /\ op'[p].result.code = "OK"
          => records'[op[p].id].thumbnails = Append(op[p].rec.thumbnails, op[p].req.size)
     /\ BothAdded(op') => LaterListKept(op', records')]_vars

\* two addThumbnail of the same size on the same record have both succeeded,
\* and the row lists the size once
C13_Witness ==
  /\ BothAdded(op)
  /\ \A p \in Proc :
       Cardinality({i \in 1..Len(records[op[p].id].thumbnails) :
                      records[op[p].id].thumbnails[i] = op[p].req.size}) = 1

\* the request ended with the validation error that names the size
SizeRejected(ctx) ==
  ctx.result.code = "DATA_FIELDS" /\ ctx.result.data = "size"

\* C15: addThumbnail and removeThumbnail answer the validation error naming
\* 'size' for exactly the size strings that are not, as a whole, of the form
\* [c|f]<positive integer>x<positive integer>.
C15_SizeGrammarDecides ==
  \A p \in Proc :
    op[p].kind \in {"thumbnail_create", "thumbnail_delete"} /\ op[p].pc = "done"
      /\ ~Refused(op[p])
    => (SizeRejected(op[p]) <=> ~GrammarMatch(op[p].req.size))

\* the path is that of the file with '_' and the size put right before the
\* extension of the filename
SizeBeforeExtension(path, filename, size) ==
  LET ext == SplitExt(filename)[2]
      mid == <<"_">> \o size
      n == Len(path) - Len(mid) - Len(ext)
  IN /\ n >= 0
     /\ SubSeq(path, n + 1, n + Len(mid)) = mid
     /\ SubSeq(path, n + Len(mid) + 1, Len(path)) = ext
     /\ SubSeq(path, 1, n) \o ext = filename

\* the path with the '_' and the size before the extension taken away
SuffixRemoved(path, filename, size) ==
  LET ext == SplitExt(filename)[2]
      n == Len(path) - Len(size) - 1 - Len(ext)
  IN SubSeq(path, 1, n) \o ext

\* C19: for one record the keys of the source and of the sizes it lists are
\* pairwise different; the key resolveUrl answers for a size is the id and
\* the filename with '_' and the size put between the base and the
\* extension; and taking '_' and the size away from it gives the key of the
\* source of the record.
C19_DerivedKey ==
  /\ \A id \in Ids :
       records[id].exists =>
         LET names == {SOURCE} \cup Range(records[id].thumbnails)
         IN \A s, u \in names :
              s # u => Filename(id, records[id].filename, s)
                         # Filename(id, records[id].filename, u)
  /\ \A p \in Proc :
       Finishes(p, "url_read") /\ op[p].result.code = "OK" /\ op[p].req.hasSize =>
         LET key == op[p].result.data.url
             f == records[op[p].id].filename
         IN /\ key[1] = op[p].id
            /\ SizeBeforeExtension(key[2], f, op[p].req.size)
            /\ <<key[1], SuffixRemoved(key[2], f, op[p].req.size)>>
                 = Filename(op[p].id, f, SOURCE)

\* the request names none of the range, the filename and the uploader
NoCriterion(r) == ~r.hasRange /\ r.filename # "text" /\ ~r.hasMine

\* the context has answered the validation error without a call
RejectedUnqueried(ctx) ==
  ctx.pc = "done" /\ ctx.result.code = "DATA_FIELDS" /\ ctx.log = <<>>

\* C16: a filter request that names none of the three criteria is answered
\* the validation error and makes no query of the records, whatever else it
\* carries.
C16_FilterNeedsCriterion ==
  [][\A p \in Proc :
       op[p].pc = "idle" /\ op'[p].kind = "filter_read" =>
         \A r \in FilterRequests :
           r.defect = "none" /\ NoCriterion(r) /\ MediaFilterRead(p, r, TRUE)
             => RejectedUnqueried(op'[p])]_vars

\* the context has answered the authorization error without a call
TurnedAway(ctx) ==
  ctx.pc = "done" /\ ctx.result.code = "RIGHTS" /\ ctx.log = <<>>

\* C18: a request the access check denies is answered the authorization
\* error at once, whatever the operation: no record is read or written, the
\* storage is not called, and the records and the storage are as they were.
C18_DeniedBeforeAnything ==
  \A p \in Proc :
    /\ op[p].pc # "idle" /\ op[p].req.defect = "denied"
    /\ op[p].kind \in {"create", "delete", "filter_read", "read", "thumbnail_create",
                       "thumbnail_delete", "url_read"}
    => /\ TurnedAway(op[p])
       /\ records = op[p].pre.records /\ storage = op[p].pre.storage

\* a delete of an existing record has been denied
C18_Witness ==
  \E p \in Proc :
    /\ Finishes(p, "delete") /\ TurnedAway(op[p])
    /\ records[op[p].req.id].exists
    /\ storage # {}


\* a locale delete the checks of the request let through to the count
Counted(ctx) ==
  /\ ctx.kind = "category_locale_delete" /\ ctx.pc = "done"
  /\ ctx.result.code \notin {"RIGHTS", "DATA_FIELDS"}
  /\ ctx.req.id \in categories

\* C20: between requests every category has at least two locale rows; and a
\* locale delete on a category that has no more than two locale rows, which
\* would leave it fewer than two, is answered MINIMUM_LOCALE and deletes
\* nothing.
C20_TwoLocalesKept ==
  /\ Quiet => \A c \in categories : LocaleCount(locales, c) >= 2
  /\ \A p \in Proc :
       Counted(op[p]) /\ LocaleCount(op[p].pre.locales, op[p].req.id) <= 2
         => op[p].result.code = "MINIMUM_LOCALE" /\ locales = op[p].pre.locales


\* the keys a record stands for: that of its source and those of the
\* thumbnails it lists
RecordKeys(recs, id) ==
  {Filename(id, recs[id].filename, s) :
     s \in {SOURCE} \cup (IF recs[id].image THEN Range(recs[id].thumbnails) ELSE {})}

\* C21: when no call to the storage or to the database fails, between the
\* calls of create, addThumbnail, removeThumbnail and delete the keys of the
\* storage are exactly the source keys and the derived keys of the listed
\* thumbnails of the records that exist.
C21_StorageIsWhatRecordsList ==
  Quiet => storage = UNION {RecordKeys(records, id) : id \in {i \in Ids : records[i].exists}}


\* the record with this id, if there is one, has its source in the storage
SourceKept(recs, st, id) ==
  recs[id].exists => Filename(id, recs[id].filename, SOURCE) \in st

\* C22: whenever no request is being served, every record has its source in
\* the storage, whichever calls have failed before.
C22_RecordHasSource ==
  Quiet => \A id \in Ids : SourceKept(records, storage, id)


\* both contexts hold an addThumbnail that has succeeded, on the same record
\* and for two different sizes
BothAddedDifferent(o) ==
  /\ \A p \in Proc : o[p].kind = "thumbnail_create" /\ o[p].pc = "done"
                       /\ o[p].result.code = "OK"
  /\ \A p, q \in Proc : o[p].id = o[q].id
  /\ \E p, q \in Proc : o[p].req.size # o[q].req.size

\* C23 as stated: after two addThumbnail on the same record for two
\* different sizes have both succeeded, the record lists both sizes.
C23_BothSizesListed ==
  BothAddedDifferent(op) =>
    \A p \in Proc : op[p].req.size \in Range(records[op[p].id].thumbnails)

\* C23: after two addThumbnail on the same record for two different sizes,
\* served with no mutual exclusion, have both succeeded, the storage holds
\* both thumbnails and the record holds the list one of the two has
\* written: the list that one read, with its own size at the end.
C23_LaterListListed ==
  BothAddedDifferent(op) =>
    /\ \A p \in Proc : CtxKey(op[p], op[p].req.size) \in storage
    /\ \E p \in Proc :
         LET thumbnails == records[op[p].id].thumbnails
         IN /\ thumbnails = op[p].rec.thumbnails
            /\ thumbnails # <<>> /\ thumbnails[Len(thumbnails)] = op[p].req.size

\* two addThumbnail of different sizes on the same record have both
\* succeeded, and the record lists one of the two sizes only
C23_Witness ==
  /\ BothAddedDifferent(op)
  /\ \E p \in Proc : op[p].req.size \notin Range(records[op[p].id].thumbnails)
  /\ \A p \in Proc : CtxKey(op[p], op[p].req.size) \in storage


\* the delete of context p has answered True, and the other contexts hold
\* no request on its record that is still being served
DeleteSucceeded(p) ==
  /\ Finishes(p, "delete") /\ op[p].result.code = "OK" /\ op[p].result.data = TRUE
  /\ \A q \in Proc \ {p} : op[q].pc \in {"idle", "done"} \/ op[q].id # op[p].id

\* C24 as stated: once a delete has answered True and no request on the
\* record is being served, the storage holds no object of the record.
C24_NothingLeftAfterDelete ==
  \A p \in Proc : DeleteSucceeded(p) => KeysOf(op[p].id) = {}

\* C24: once a delete has answered True and no request on the record is
\* being served, the record is gone, the storage does not hold its source,
\* and the delete has deleted the source and every thumbnail of the list it
\* read: an object the storage still holds for the record is a thumbnail
\* that list did not have, or one saved after the delete deleted it.
C24_ListedObjectsDeleted ==
  \A p \in Proc :
    DeleteSucceeded(p) =>
      /\ ~records[op[p].id].exists
      /\ CtxKey(op[p], SOURCE) \notin storage
      /\ \A s \in {SOURCE} \cup Range(DeleteFiles(op[p].rec)) :
           Succeeded(op[p], "delete", CtxKey(op[p], s), Len(op[p].log))
      /\ Range(DeleteFiles(op[p].rec))
           = {SOURCE} \cup (IF op[p].rec.image THEN Range(op[p].rec.thumbnails) ELSE {})

\* a delete has answered True while an addThumbnail on the same record has
\* succeeded, and the storage holds the thumbnail of that addThumbnail
C24_Witness ==
  \E p, q \in Proc :
    /\ DeleteSucceeded(p)
    /\ Finishes(q, "thumbnail_create") /\ op[q].result.code = "OK"
    /\ op[q].id = op[p].id
    /\ CtxKey(op[q], op[q].req.size) \in storage


\* no item of the list is in it twice
ListedOnce(thumbnails) ==
  \A i, j \in 1..Len(thumbnails) : thumbnails[i] = thumbnails[j] => i = j

\* C25: whenever no request is being served no record lists a size twice,
\* and a removeThumbnail that has answered True leaves the size out of the
\* list of the record.
C25_ThumbnailsAreASet ==
  /\ Quiet => \A id \in Ids : records[id].exists => ListedOnce(records[id].thumbnails)
  /\ \A p \in Proc :
       /\ Finishes(p, "thumbnail_delete")
       /\ op[p].result.code = "OK" /\ op[p].result.data = TRUE
       => op[p].req.size \notin Range(records[op[p].id].thumbnails)


\* the answer of the first check of a thumbnail request that fails, the
\* checks taken in the order size, record, image, list; NoResult when they
\* all pass
FirstRejection(ctx) ==
  IF ~GrammarMatch(ctx.req.size) THEN Result("DATA_FIELDS", "size")
  ELSE IF ~Named(ctx).exists THEN Result("DB_NO_RECORD", "media")
  ELSE IF ~Named(ctx).image THEN Result("NOT_AN_IMAGE", "media")
  ELSE IF ctx.kind = "thumbnail_create" /\ ctx.req.size \in Range(Named(ctx).thumbnails)
    THEN Result("DB_DUPLICATE", "media_thumbnail")
  ELSE IF ctx.kind = "thumbnail_delete" /\ ctx.req.size \notin Range(Named(ctx).thumbnails)
    THEN Result("OK", FALSE)
  ELSE NoResult

\* C26: addThumbnail and removeThumbnail check the size against the variant
\* grammar, then that the record exists, then that it is an image, then the
\* list; the first check that fails gives the answer, and the request has
\* then called the storage and written the record not at all.
C26_FirstFailingCheckDecides ==
  \A p \in Proc :
    op[p].kind \in {"thumbnail_create", "thumbnail_delete"} /\ ~Refused(op[p])
      /\ FirstRejection(op[p]).code # "none"
    => /\ op[p].pc \in {"get", "done"}
       /\ op[p].pc = "done" =>
            /\ op[p].result.code = FirstRejection(op[p]).code
            /\ op[p].result.data = FirstRejection(op[p]).data
       /\ StorageCalls(op[p]) = {} /\ RecordWrites(op[p]) = {}
       /\ records = op[p].pre.records /\ storage = op[p].pre.storage


\* the request names a record that is there and whose filename has none of
\* the image extensions
NamesGeneric(ctx) ==
  /\ ctx.kind \in {"thumbnail_create", "thumbnail_delete", "url_read"}
  /\ ctx.pc # "idle"
  /\ ctx.kind = "url_read" => ctx.req.hasSize
  /\ Named(ctx).exists /\ ~IsImageName(Named(ctx).filename)

\* a record with no image section has just been created with its one object,
\* or is named by a request that has not touched it
GenericKept ==
  /\ \A id \in Ids :
       records[id].exists /\ ~IsImageName(records[id].filename)
         => ~records[id].image /\ records[id].thumbnails = <<>>
  /\ \A p \in Proc :
       Finishes(p, "create") /\ op[p].result.code = "OK"
         /\ ~IsImageName(op[p].rec.filename)
       => /\ records[op[p].id].exists /\ ~records[op[p].id].image
          /\ KeysOf(op[p].id) = {CtxKey(op[p], SOURCE)}
  /\ \A p \in Proc :
       NamesGeneric(op[p]) =>
         /\ op[p].pc \in {"get", "done"}
         /\ StorageCalls(op[p]) = {} /\ RecordWrites(op[p]) = {}
         /\ records = op[p].pre.records /\ storage = op[p].pre.storage

\* C27 as stated: a file whose extension, in lower case, is none of jpeg,
\* jpe, jpg and png gets a record with no image section and, when create
\* succeeds, one object in the storage, its source; every addThumbnail,
\* removeThumbnail and resolveUrl with a size on such a record that the
\* access check and the check of the fields let through is answered the
\* not-an-image error and changes neither the records nor the storage.
C27_GenericAlwaysNotAnImage ==
  /\ GenericKept
  /\ \A p \in Proc :
       NamesGeneric(op[p]) /\ op[p].pc = "done" /\ ~Refused(op[p])
         => op[p].result = Result("NOT_AN_IMAGE", "media")

\* C27: a file whose extension, in lower case, is none of jpeg, jpe, jpg
\* and png gets a record with no image section and, when create succeeds,
\* one object in the storage, its source; addThumbnail, removeThumbnail and
\* resolveUrl with a size on such a record call the storage not at all,
\* write no record and leave the records and the storage as they were; an
\* addThumbnail or removeThumbnail whose size does not start as
\* _dimensions asks is answered the validation error that names the size,
\* and every other such request, resolveUrl with any size included, the
\* not-an-image error.
C27_GenericStaysGeneric ==
  /\ GenericKept
  /\ \A p \in Proc :
       NamesGeneric(op[p]) /\ op[p].pc = "done" /\ ~Refused(op[p])
         => op[p].result =
              IF op[p].kind # "url_read" /\ ~DimensionsMatch(op[p].req.size)
                THEN Result("DATA_FIELDS", "size")
                ELSE Result("NOT_AN_IMAGE", "media")

\* an addThumbnail on a record with no image section, whose source is the
\* one object it has in the storage, has been answered not-an-image
C27_Witness ==
  \E p \in Proc :
    /\ Finishes(p, "thumbnail_create") /\ NamesGeneric(op[p])
    /\ op[p].result.code = "NOT_AN_IMAGE"
    /\ KeysOf(op[p].req.id)
         = {Filename(op[p].req.id, records[op[p].req.id].filename, SOURCE)}


\* both contexts hold a locale delete that has answered, of two different
\* locales of the same category
BothLocaleDeletesDone(o) ==
  /\ \A p \in Proc : o[p].kind = "category_locale_delete" /\ o[p].pc = "done"
                       /\ o[p].req.id \in categories
  /\ \A p, q \in Proc : o[p].req.id = o[q].req.id
  /\ \E p, q \in Proc : o[p].locale # o[q].locale

\* C28: after two locale deletes of two different locales of the same
\* category, served with no mutual exclusion, have both answered, the
\* category has a locale row left.
C28_ALocaleIsLeft ==
  BothLocaleDeletesDone(op) =>
    \A p \in Proc : LocaleCount(locales, op[p].req.id) >= 1

====
